---- MODULE Spec2Model ----
(***************************************************************************)
(* Candidate data storage of navintellis/candidate-screener:               *)
(* StorageManager (src/src/utils/storageUtils.js), the html/pdf generator  *)
(* (src/src/utils/pdfUtils.js) and the processAudio controller             *)
(* (src/src/controllers/audioController.js).                               *)
(*                                                                         *)
(* Strings are sequences of one-character strings, so that startsWith,     *)
(* endsWith, path.extname and the name sanitiser are computed character by *)
(* character, as the code computes them.                                   *)
(***************************************************************************)
EXTENDS Integers, Sequences, FiniteSets, TLC

\* ------------------------------------------------------------------ bounds
\* Last second the wall clock reaches (the clock starts at second 1).
MaxClock == 2
\* Number of storage faults (a failing mkdir, open, write, copy or put).
MaxFaults == 1
\* Latest processed_at second a stored metadata document carries.
MaxTime == 2
\* Storage calls that fail during one listing.
MaxListFaults == 2
\* The longest candidate name drawn from the name alphabet.
MaxNameLen == 3

\* ----------------------------------------------------------------- strings
StartsWith(s, p) == Len(s) >= Len(p) /\ SubSeq(s, 1, Len(p)) = p

EndsWith(s, p) == Len(s) >= Len(p) /\ SubSeq(s, Len(s) - Len(p) + 1, Len(s)) = p

\* Index of the last occurrence of character c in s, 0 when there is none.
LastIndexOf(s, c) ==
    LET hits == {i \in 1..Len(s) : s[i] = c}
    IN  IF hits = {} THEN 0 ELSE CHOOSE i \in hits : \A j \in hits : j <= i

\* path.basename: what follows the last "/".
Basename(p) == SubSeq(p, LastIndexOf(p, "/") + 1, Len(p))

\* path.extname: from the last "." of the basename to its end; empty when the
\* basename has no ".", starts with its only "." or is "..".
Extname(p) ==
    LET base == Basename(p)
        dot  == LastIndexOf(base, ".")
    IN  IF dot <= 1 \/ base = <<".", ".">> THEN <<>> ELSE SubSeq(base, dot, Len(base))

AlnumChars ==
    {"a","b","c","d","e","f","g","h","i","j","k","l","m","n","o","p","q","r","s",
     "t","u","v","w","x","y","z","A","B","C","D","E","F","G","H","I","J","K","L",
     "M","N","O","P","Q","R","S","T","U","V","W","X","Y","Z","0","1","2","3","4",
     "5","6","7","8","9"}

UpperChars ==
    <<"A","B","C","D","E","F","G","H","I","J","K","L","M","N","O","P","Q","R","S",
      "T","U","V","W","X","Y","Z">>

LowerChars ==
    <<"a","b","c","d","e","f","g","h","i","j","k","l","m","n","o","p","q","r","s",
      "t","u","v","w","x","y","z">>

\* String.prototype.toLowerCase on the characters the model uses.
ToLowerCase(s) ==
    [i \in 1..Len(s) |->
        IF \E k \in 1..Len(UpperChars) : UpperChars[k] = s[i]
        THEN LowerChars[CHOOSE k \in 1..Len(UpperChars) : UpperChars[k] = s[i]]
        ELSE s[i]]

DigitChars == <<"0","1","2","3","4","5","6","7","8","9">>

TwoDigits(k) == <<DigitChars[(k \div 10) + 1], DigitChars[(k % 10) + 1]>>

\* ------------------------------------------------------------- key scheme
\* moment().tz(zone).format('YYYYMMDD-HHmmss') of second `now` of the day the
\* model runs in.
FormatTimestamp(now) ==
    <<"2","0","2","4","0","1","0","1","-">>
        \o TwoDigits(now \div 3600) \o TwoDigits((now \div 60) % 60) \o TwoDigits(now % 60)

GenerateSessionId(now) == FormatTimestamp(now) \o <<"-","I","S","T">>

TRANSCRIPT_TXT == <<"t","r","a","n","s","c","r","i","p","t",".","t","x","t">>

PROFILE_JSON ==
    <<"c","a","n","d","i","d","a","t","e","_","p","r","o","f","i","l","e",".","j","s","o","n">>

METADATA_JSON == <<"m","e","t","a","d","a","t","a",".","j","s","o","n">>

AUDIO_PREFIX == <<"a","u","d","i","o","_">>

DOT_MP3 == <<".","m","p","3">>

DOT_HTML == <<".","h","t","m","l">>

DOT_PDF == <<".","p","d","f">>

\* const audioExtension = path.extname(audioFile.originalname) || '.mp3'
AudioExtension(originalname) ==
    IF Extname(originalname) = <<>> THEN DOT_MP3 ELSE Extname(originalname)

AudioFilename(sessionId, originalname) ==
    AUDIO_PREFIX \o sessionId \o AudioExtension(originalname)

\* SanitizeName with a pattern that lets spaces through.
SanitizeNameKeepingSpaces(name) ==
    IF name = <<>>
    THEN <<"c","a","n","d","i","d","a","t","e">>
    ELSE [i \in 1..Len(name) |->
            IF name[i] \in AlnumChars \cup {" "} THEN name[i] ELSE "_"]

\* candidate_name.replace(/[^a-zA-Z0-9]/g, '_'), or 'candidate' for a missing
\* or empty name (an absent name is the empty sequence).
SanitizeName(name) ==
    IF name = <<>>
    THEN <<"c","a","n","d","i","d","a","t","e">>
    ELSE [i \in 1..Len(name) |-> IF name[i] \in AlnumChars THEN name[i] ELSE "_"]

GeneratedFilename(name, now, ext) ==
    SanitizeName(name) \o <<"_","p","r","o","f","i","l","e","_">> \o FormatTimestamp(now) \o ext

\* FixedName with the metadata document stored under another name.
FixedNameShort(kind) ==
    CASE kind = "transcript" -> TRANSCRIPT_TXT
      [] kind = "profile" -> PROFILE_JSON
      [] kind = "metadata" -> <<"m","e","t","a",".","j","s","o","n">>

FixedName(kind) ==
    CASE kind = "transcript" -> TRANSCRIPT_TXT
      [] kind = "profile" -> PROFILE_JSON
      [] kind = "metadata" -> METADATA_JSON

\* The filename an artifact of `kind` is written under: the fixed names of
\* saveCandidateData, the audio name built from the sessionId and the upload's
\* original name, the html and pdf names built by generateCandidatePDF from the
\* candidate's name and the second `at` of generation.
KeyName(kind, sessionId, originalname, name, at) ==
    CASE kind \in {"transcript", "profile", "metadata"} -> FixedName(kind)
      [] kind = "audio" -> AudioFilename(sessionId, originalname)
      [] kind = "html" -> GeneratedFilename(name, at, DOT_HTML)
      [] kind = "pdf" -> GeneratedFilename(name, at, DOT_PDF)

\* Classify taking every name that ends in .mp3 for the audio.
ClassifyBySuffix(file) ==
    IF EndsWith(file, DOT_MP3) THEN "audio"
    ELSE IF file = TRANSCRIPT_TXT THEN "transcript"
    ELSE IF file = PROFILE_JSON THEN "profile"
    ELSE IF file = METADATA_JSON THEN "metadata"
    ELSE IF EndsWith(file, DOT_HTML) THEN "html"
    ELSE IF EndsWith(file, DOT_PDF) THEN "pdf"
    ELSE "none"

\* The if/else-if chain of the two listings: first match wins, "none" for a
\* name that matches nothing.
Classify(file) ==
    IF StartsWith(file, AUDIO_PREFIX) /\ EndsWith(file, DOT_MP3) THEN "audio"
    ELSE IF file = TRANSCRIPT_TXT THEN "transcript"
    ELSE IF file = PROFILE_JSON THEN "profile"
    ELSE IF file = METADATA_JSON THEN "metadata"
    ELSE IF EndsWith(file, DOT_HTML) THEN "html"
    ELSE IF EndsWith(file, DOT_PDF) THEN "pdf"
    ELSE "none"

Kinds == {"audio", "transcript", "profile", "metadata", "html", "pdf"}

\* -------------------------------------------------------------- documents
\* A file's content is a sequence of tokens. A string is stored one token per
\* character; JSON.stringify of a document gives "{", one token per field in
\* the object's insertion order, "}".
Chars(str) == [i \in 1..Len(str) |-> [t |-> "ch", c |-> str[i]]]

FieldOrder ==
    <<"candidate_name", "contact_location", "total_experience_years", "summary",
      "candidateId", "originalFilename", "processedAt", "processed_at",
      "original_filename", "sessionId">>

Stringify(doc) ==
    LET present == SelectSeq(FieldOrder, LAMBDA f : f \in DOMAIN doc)
    IN  <<[t |-> "{"]>>
            \o [i \in 1..Len(present) |-> [t |-> "kv", k |-> present[i], v |-> doc[present[i]]]]
            \o <<[t |-> "}"]>>

\* JSON.parse: succeeds on "{" fields "}" and on nothing else the model stores.
IsJsonObject(text) ==
    /\ Len(text) >= 2
    /\ text[1] = [t |-> "{"]
    /\ text[Len(text)] = [t |-> "}"]
    /\ \A i \in 2..(Len(text) - 1) : text[i].t = "kv"

ParsedFields(text) == {text[i].k : i \in 2..(Len(text) - 1)}

\* The value JSON.parse gives field f: the last occurrence wins.
ParsedValue(text, f) ==
    LET at == {i \in 2..(Len(text) - 1) : text[i].k = f}
    IN  text[CHOOSE i \in at : \A j \in at : j <= i].v

\* What a write of `data` at offset 0 leaves in a file that held `old`: the
\* bytes beyond the written ones stay (the file was opened without O_APPEND,
\* each writer has its own file position).
Overlay(old, data) ==
    IF Len(old) <= Len(data) THEN data ELSE data \o SubSeq(old, Len(data) + 1, Len(old))

\* ----------------------------------------------------------------- inputs
\* The requests of the model, numbered in the order in which they reach
\* saveCandidateData: two, so that two writers can race.
Reqs == {1, 2}

CandidateIds == {<<"c","1">>}

\* req.file.originalname of the uploads of the racing requests.
OriginalNames == {<<"a",".","m","p","3">>}

\* profile.candidate_name; the empty sequence is a profile without a name.
CandidateNames == {<<>>, <<"A","l">>}

\* The names request r's profile may carry. The first request to arrive is
\* taken to be one whose profile names the candidate; the second may or may
\* not, so that the two profiles are equal or differ in name and in length.
NamesOf(r) == IF r = 1 THEN {<<"A","l">>} ELSE CandidateNames

\* What extractProfile returns, as far as the storage reads it.
ProfileDoc(name) ==
    IF name = <<>>
    THEN [summary |-> <<"s">>]
    ELSE [candidate_name |-> name, summary |-> <<"s">>]

\* The metadata processAudio prepares; sessionId stays null (the empty
\* sequence), processedAt is the time of preparation.
MetadataDoc(candidateId, originalname, at) ==
    [candidateId |-> candidateId, originalFilename |-> originalname,
     processedAt |-> at, sessionId |-> <<>>]

\* ------------------------------------------------------------------ state
VARIABLES
    storageType,    \* config.storage.type: "filesystem" or "s3"
    now,            \* the wall clock, in seconds
    fsDirs,         \* filesystem: the directories under the root that exist,
                    \* each the sequence of its path segments (<<>> the root)
    files,          \* path <<candidateId, sessionId, filename>> -> stored file
    req,            \* per request: candidateId, originalname, name, metadata
    pc,             \* per request: where processAudio stands
    sid,            \* per request: the sessionId saveCandidateData generated
    wr,             \* per request and artifact: state of the dispatched write
    firstErr,       \* per request: the rejection Promise.all has seen first
    result,         \* per request: how saveCandidateData settled
    gts,            \* per request: the timestamp generateCandidatePDF took
    response,       \* per request: the response sent
    faults,         \* storage faults so far
    call            \* the last call of a pure operation: arguments and result

vars ==
    <<storageType, now, fsDirs, files, req, pc, sid, wr, firstErr, result, gts,
      response, faults, call>>

\* The artifacts saveCandidateData dispatches as promises, in the order of
\* savePromises / uploadPromises.
WriteOrder == <<"transcript", "profile", "metadata", "audio">>

Slots == {WriteOrder[i] : i \in 1..Len(WriteOrder)}

\* The filename request r writes artifact `kind` under.
ArtifactName(r, kind) == KeyName(kind, sid[r], req[r].originalname, req[r].name, gts[r])

ArtifactPath(r, kind) == <<req[r].candidateId, sid[r], ArtifactName(r, kind)>>

\* The bytes request r writes for artifact `kind`. The transcript argument is
\* the record {raw, formatted}: fs.writeFile rejects it, and what a put makes
\* of it is the SDK's affair, kept as one opaque token.
ArtifactData(r, kind) ==
    CASE kind = "transcript" -> <<[t |-> "obj", r |-> r]>>
      [] kind = "profile" -> Stringify(ProfileDoc(req[r].name))
      [] kind = "metadata" -> Stringify(req[r].metadata)
      [] kind = "audio" -> <<[t |-> "au", r |-> r]>>
      [] kind = "html" -> <<[t |-> "html", r |-> r]>>
      [] kind = "pdf" -> <<[t |-> "pdf", r |-> r]>>

\* fs.promises.writeFile accepts a string or a buffer; a plain object is
\* rejected with ERR_INVALID_ARG_TYPE before the file is opened.
WriteFileAccepts(kind) == kind # "transcript"

NoReq == [candidateId |-> <<>>, originalname |-> <<>>, name |-> <<>>,
          metadata |-> [sessionId |-> <<>>]]

Pending == [state |-> "pending", err |-> "none", locators |-> {}]

NoCall == [op |-> "none"]

\* No request has arrived.
NoRequests ==
    /\ now = 1
    /\ req = [r \in Reqs |-> NoReq]
    /\ pc = [r \in Reqs |-> "idle"]
    /\ sid = [r \in Reqs |-> <<>>]
    /\ wr = [r \in Reqs |-> [k \in Slots |-> "none"]]
    /\ firstErr = [r \in Reqs |-> "none"]
    /\ result = [r \in Reqs |-> Pending]
    /\ gts = [r \in Reqs |-> 0]
    /\ response = [r \in Reqs |-> "none"]
    /\ faults = 0

\* A fresh server on an empty store; on the filesystem the candidate-data root
\* may not exist yet.
Init ==
    /\ storageType \in {"filesystem", "s3"}
    /\ fsDirs \in (IF storageType = "filesystem" THEN {{}, {<<>>}} ELSE {{}})
    /\ files = <<>>
    /\ call = NoCall
    /\ NoRequests

\* The file stored at path p becomes `data`, written by r as artifact `kind`.
Store(p, data, r, kind) ==
    IF p \in DOMAIN files
    THEN [files EXCEPT ![p] = [data |-> data, by |-> r, as |-> kind]]
    ELSE [q \in DOMAIN files \cup {p} |->
            IF q = p THEN [data |-> data, by |-> r, as |-> kind] ELSE files[q]]

\* The clock advances by a second. Only saveCandidateData and
\* generateCandidatePDF read it, so it moves while one of them is still to come.
Tick ==
    /\ now < MaxClock
    /\ \E r \in Reqs : pc[r] \in {"idle", "saved"}
    /\ now' = now + 1
    /\ UNCHANGED <<storageType, fsDirs, files, req, pc, sid, wr, firstErr, result,
                   gts, response, faults, call>>

\* Promise.all looks at its promises in array order: of those already
\* rejected when it is called, the first in the array decides the error.
FirstFailedInOrder(w) ==
    LET failed == {i \in 1..Len(WriteOrder) : w[WriteOrder[i]] = "failed"}
    IN  IF failed = {} THEN "none"
        ELSE WriteOrder[CHOOSE i \in failed : \A j \in failed : i <= j]

\* The rejection of r's write of `kind`, as Promise.all sees it: it counts
\* once Promise.all is waiting and has seen no earlier rejection.
NoteFailure(r, kind) ==
    IF pc[r] = "await" /\ firstErr[r] = "none"
    THEN [firstErr EXCEPT ![r] = kind]
    ELSE firstErr

Rejected(cause) == [state |-> "rejected", err |-> cause, locators |-> {}]

\* The result saveCandidateData returns: the kinds that result.paths or
\* result.s3Keys hold a locator of.
Resolved ==
    [state |-> "resolved", err |-> "none",
     locators |-> {"transcript", "profile", "metadata", "audio"}]

\* The catch around the generation as one that passes the error on to the
\* handler's own catch and its 500.
PdfErrorRethrown == "error"

\* catch (pdfError) { console.warn(...) }: the handler continues to its
\* success response.
PdfErrorCaught == "success"

\* processAudio from the end of profile extraction on, which runs without a
\* pause into saveCandidateData: the metadata is prepared, the sessionId is the
\* clock's second; on the object store the three puts are dispatched at once,
\* on the filesystem the session directory is made first.
SaveCandidateData(r) ==
    /\ pc[r] = "idle"
    /\ \A q \in Reqs : q < r => pc[q] # "idle"
    /\ \E c \in CandidateIds, o \in OriginalNames, n \in NamesOf(r) :
          req' = [req EXCEPT ![r] =
                    [candidateId |-> c, originalname |-> o, name |-> n,
                     metadata |-> MetadataDoc(c, o, now)]]
    /\ sid' = [sid EXCEPT ![r] = GenerateSessionId(now)]
    /\ IF storageType = "filesystem"
       THEN /\ pc' = [pc EXCEPT ![r] = "mkdir"]
            /\ wr' = wr
       ELSE /\ pc' = [pc EXCEPT ![r] = "read"]
            /\ wr' = [wr EXCEPT ![r] =
                        [k \in Slots |-> IF k = "audio" THEN "none" ELSE "pending"]]
    /\ UNCHANGED <<storageType, now, fsDirs, files, firstErr, result, gts, response,
                   faults, call>>

\* _saveToFilesystem: mkdir -p of the session directory, then the three
\* writeFile calls are dispatched; a data argument writeFile does not accept
\* is a promise rejected from the start.
Mkdir(r) ==
    /\ pc[r] = "mkdir"
    /\ \/ /\ fsDirs' = fsDirs \cup {<<>>, <<req[r].candidateId>>,
                                    <<req[r].candidateId, sid[r]>>}
          /\ wr' = [wr EXCEPT ![r] =
                      [k \in Slots |->
                          IF k = "audio" THEN "none"
                          ELSE IF WriteFileAccepts(k) THEN "pending" ELSE "failed"]]
          /\ pc' = [pc EXCEPT ![r] = "copy"]
          /\ UNCHANGED <<result, response, faults>>
       \/ /\ faults < MaxFaults
          /\ faults' = faults + 1
          /\ result' = [result EXCEPT ![r] = Rejected("mkdir")]
          /\ pc' = [pc EXCEPT ![r] = "done"]
          /\ response' = [response EXCEPT ![r] = "error"]
          /\ UNCHANGED <<fsDirs, wr>>
    /\ UNCHANGED <<storageType, now, files, req, sid, firstErr, gts, call>>

\* _saveToFilesystem: await copyFile(temp, audioPath), then Promise.all on the
\* three writes. A failing copy rejects saveCandidateData on the spot.
CopyAudio(r) ==
    /\ pc[r] = "copy"
    /\ \/ /\ files' = Store(ArtifactPath(r, "audio"), ArtifactData(r, "audio"), r, "audio")
          /\ pc' = [pc EXCEPT ![r] = "await"]
          /\ firstErr' = [firstErr EXCEPT ![r] = FirstFailedInOrder(wr[r])]
          /\ UNCHANGED <<result, response, faults>>
       \/ /\ faults < MaxFaults
          /\ faults' = faults + 1
          /\ result' = [result EXCEPT ![r] = Rejected("copy")]
          /\ pc' = [pc EXCEPT ![r] = "done"]
          /\ response' = [response EXCEPT ![r] = "error"]
          /\ UNCHANGED <<files, firstErr>>
    /\ UNCHANGED <<storageType, now, fsDirs, req, sid, wr, gts, call>>

\* _saveToS3: await readFile(temp), then the audio put joins uploadPromises
\* and Promise.all is called. A failing read rejects saveCandidateData.
ReadAudio(r) ==
    /\ pc[r] = "read"
    /\ \/ /\ wr' = [wr EXCEPT ![r]["audio"] = "pending"]
          /\ pc' = [pc EXCEPT ![r] = "await"]
          /\ firstErr' = [firstErr EXCEPT ![r] = FirstFailedInOrder(wr[r])]
          /\ UNCHANGED <<result, response, faults>>
       \/ /\ faults < MaxFaults
          /\ faults' = faults + 1
          /\ result' = [result EXCEPT ![r] = Rejected("read")]
          /\ pc' = [pc EXCEPT ![r] = "done"]
          /\ response' = [response EXCEPT ![r] = "error"]
          /\ UNCHANGED <<wr, firstErr>>
    /\ UNCHANGED <<storageType, now, fsDirs, files, req, sid, gts, call>>

\* fs.promises.writeFile, first half: open(path, 'w') creates or truncates.
OpenFile(r, kind) ==
    /\ storageType = "filesystem"
    /\ wr[r][kind] = "pending"
    /\ \/ /\ files' = Store(ArtifactPath(r, kind), <<>>, r, kind)
          /\ wr' = [wr EXCEPT ![r][kind] = "open"]
          /\ UNCHANGED <<firstErr, faults>>
       \/ /\ faults < MaxFaults
          /\ faults' = faults + 1
          /\ wr' = [wr EXCEPT ![r][kind] = "failed"]
          /\ firstErr' = NoteFailure(r, kind)
          /\ UNCHANGED files
    /\ UNCHANGED <<storageType, now, fsDirs, req, pc, sid, result, gts, response, call>>

\* fs.promises.writeFile, second half: the data is written from the handle's
\* own position 0 and the handle closed; the promise settles.
WriteFile(r, kind) ==
    /\ storageType = "filesystem"
    /\ wr[r][kind] = "open"
    /\ \/ /\ files' = Store(ArtifactPath(r, kind),
                            Overlay(files[ArtifactPath(r, kind)].data, ArtifactData(r, kind)),
                            r, kind)
          /\ wr' = [wr EXCEPT ![r][kind] = "done"]
          /\ UNCHANGED <<firstErr, faults>>
       \/ /\ faults < MaxFaults
          /\ faults' = faults + 1
          /\ wr' = [wr EXCEPT ![r][kind] = "failed"]
          /\ firstErr' = NoteFailure(r, kind)
          /\ UNCHANGED files
    /\ UNCHANGED <<storageType, now, fsDirs, req, pc, sid, result, gts, response, call>>

\* uploadToS3: one PutObject, which replaces the object as a whole or fails.
PutObject(r, kind) ==
    /\ storageType = "s3"
    /\ wr[r][kind] = "pending"
    /\ \/ /\ files' = Store(ArtifactPath(r, kind), ArtifactData(r, kind), r, kind)
          /\ wr' = [wr EXCEPT ![r][kind] = "done"]
          /\ UNCHANGED <<firstErr, faults>>
       \/ /\ faults < MaxFaults
          /\ faults' = faults + 1
          /\ wr' = [wr EXCEPT ![r][kind] = "failed"]
          /\ firstErr' = NoteFailure(r, kind)
          /\ UNCHANGED files
    /\ UNCHANGED <<storageType, now, fsDirs, req, pc, sid, result, gts, response, call>>

\* A write of r was rejected and no handler is attached to its promise:
\* Promise.all has not been called yet (saveCandidateData is still waiting
\* for the audio to be copied or read) or never will be (that wait failed).
UnhandledRejection(r) ==
    /\ \E k \in Slots : wr[r][k] = "failed"
    /\ \/ pc[r] \in {"copy", "read"}
       \/ result[r].state = "rejected" /\ result[r].err \in {"copy", "read"}

\* The process exits on an unhandled rejection, as Node does by default since
\* release 15 (earlier releases warn and go on): no request still in progress
\* is answered, no request is taken any more, and the writes in flight are
\* left where they are.
Crash ==
    /\ \E r \in Reqs : UnhandledRejection(r)
    /\ \E r \in Reqs : pc[r] # "done"
    /\ pc' = [r \in Reqs |-> IF pc[r] = "done" THEN "done" ELSE "crashed"]
    /\ wr' = [r \in Reqs |-> [k \in Slots |->
                IF wr[r][k] \in {"pending", "open"} THEN "lost" ELSE wr[r][k]]]
    /\ UNCHANGED <<storageType, now, fsDirs, files, req, sid, firstErr, result, gts,
                   response, faults, call>>

\* AllFulfilled as Promise.race or Promise.any would have it.
SomeFulfilled(r) == \E k \in Slots : wr[r][k] = "done"

\* Promise.all resolves when each promise it was given is fulfilled.
AllFulfilled(r) == \A k \in Slots : wr[r][k] \in {"none", "done"}

\* await Promise.all(...): rejects with the first rejection it sees, and the
\* controller's catch answers 500; resolves once every dispatched write is done.
PromiseAll(r) ==
    /\ pc[r] = "await"
    /\ \/ /\ firstErr[r] # "none"
          /\ result' = [result EXCEPT ![r] = Rejected(firstErr[r])]
          /\ pc' = [pc EXCEPT ![r] = "done"]
          /\ response' = [response EXCEPT ![r] = "error"]
       \/ /\ firstErr[r] = "none"
          /\ AllFulfilled(r)
          /\ result' = [result EXCEPT ![r] = Resolved]
          /\ pc' = [pc EXCEPT ![r] = "saved"]
          /\ UNCHANGED response
    /\ UNCHANGED <<storageType, now, fsDirs, files, req, sid, wr, firstErr, gts, faults,
                   call>>

\* processAudio after a successful save: generateCandidatePDF takes its own
\* timestamp and stores the html, in the session folder or by a put, after
\* which the object store's result holds the html key. A failure (of the
\* rendering, or of the put) is caught and the request is answered without
\* html and pdf.
GenerateHtml(r) ==
    /\ pc[r] = "saved"
    /\ gts' = [gts EXCEPT ![r] = now]
    /\ \/ /\ files' = Store(<<req[r].candidateId, sid[r],
                              GeneratedFilename(req[r].name, now, DOT_HTML)>>,
                            ArtifactData(r, "html"), r, "html")
          /\ pc' = [pc EXCEPT ![r] = "pdf"]
          /\ result' = [result EXCEPT ![r].locators =
                          IF storageType = "s3" THEN @ \cup {"html"} ELSE @]
          /\ UNCHANGED <<response, faults>>
       \/ /\ faults < MaxFaults
          /\ faults' = faults + 1
          /\ pc' = [pc EXCEPT ![r] = "done"]
          /\ response' = [response EXCEPT ![r] = PdfErrorCaught]
          /\ UNCHANGED <<files, result>>
    /\ UNCHANGED <<storageType, now, fsDirs, req, sid, wr, firstErr, call>>

\* page.pdf into the session folder, after which the result holds the html
\* and pdf paths, or the put of the pdf buffer, after which it holds the pdf
\* key; a failure is caught likewise. The response follows at once.
GeneratePdf(r) ==
    /\ pc[r] = "pdf"
    /\ \/ /\ files' = Store(ArtifactPath(r, "pdf"), ArtifactData(r, "pdf"), r, "pdf")
          /\ result' = [result EXCEPT ![r].locators =
                          IF storageType = "s3" THEN @ \cup {"pdf"}
                          ELSE @ \cup {"html", "pdf"}]
          /\ response' = [response EXCEPT ![r] = "success"]
          /\ UNCHANGED faults
       \/ /\ faults < MaxFaults
          /\ faults' = faults + 1
          /\ response' = [response EXCEPT ![r] = PdfErrorCaught]
          /\ UNCHANGED <<files, result>>
    /\ pc' = [pc EXCEPT ![r] = "done"]
    /\ UNCHANGED <<storageType, now, fsDirs, req, sid, wr, firstErr, gts, call>>

Next ==
    \/ Tick
    \/ \E r \in Reqs : SaveCandidateData(r)
    \/ \E r \in Reqs : Mkdir(r)
    \/ \E r \in Reqs : CopyAudio(r)
    \/ \E r \in Reqs : ReadAudio(r)
    \/ \E r \in Reqs, k \in Slots : OpenFile(r, k)
    \/ \E r \in Reqs, k \in Slots : WriteFile(r, k)
    \/ \E r \in Reqs, k \in Slots : PutObject(r, k)
    \/ \E r \in Reqs : PromiseAll(r)
    \/ \E r \in Reqs : GenerateHtml(r)
    \/ \E r \in Reqs : GeneratePdf(r)
    \/ Crash

Spec == Init /\ [][Next]_vars


\* ------------------------------------------------------------ enumeration
\* A set as a sequence, in one of the orders an enumeration may give.
RECURSIVE SetToSeq(_)
SetToSeq(S) ==
    IF S = {} THEN <<>>
    ELSE LET x == CHOOSE y \in S : TRUE IN <<x>> \o SetToSeq(S \ {x})

\* The orders readdir may give the names of S.
ReaddirOrders(S) ==
    {f \in [1..Cardinality(S) -> S] : \A i, j \in 1..Cardinality(S) : i # j => f[i] # f[j]}

\* The candidate and session names of the stored snapshots, in the UTF-8 byte
\* order in which the object store lists keys and common prefixes.
NamesInKeyOrder ==
    <<GenerateSessionId(1), GenerateSessionId(2), GenerateSessionId(3),
      <<"c","1">>, <<"c","2">>, <<"c","3">>>>

KeyOrder(S) == SelectSeq(NamesInKeyOrder, LAMBDA x : x \in S)

\* The orders in which a listing may meet the names of S: any on the
\* filesystem, key order on the object store.
Enumerations(S) == IF storageType = "filesystem" THEN ReaddirOrders(S) ELSE {KeyOrder(S)}

\* ---------------------------------------------------------------- listing
\* The candidate directories under the root, or the common prefixes one level
\* below the key prefix.
ListedCandidateIds(dirs, fl) ==
    IF storageType = "filesystem"
    THEN {p[1] : p \in {q \in dirs : Len(q) = 1}}
    ELSE {p[1] : p \in DOMAIN fl}

\* The session directories of a candidate, or the common prefixes below it.
ListedSessionIds(dirs, fl, c) ==
    IF storageType = "filesystem"
    THEN {p[2] : p \in {q \in dirs : Len(q) = 2 /\ q[1] = c}}
    ELSE {p[2] : p \in {q \in DOMAIN fl : q[1] = c}}

\* The filenames found in a session directory or under a session prefix.
EntriesOf(fl, c, s) == {p[3] : p \in {q \in DOMAIN fl : q[1] = c /\ q[2] = s}}

NoLocators == [k \in Kinds |-> <<>>]

\* "Map files to their types": the loop over the entries in listing order;
\* a later entry of a kind replaces an earlier one. The empty name is null.
RECURSIVE MapFiles(_)
MapFiles(entries) ==
    IF entries = <<>> THEN NoLocators
    ELSE LET before == MapFiles(SubSeq(entries, 1, Len(entries) - 1))
             file   == entries[Len(entries)]
             kind   == Classify(file)
         IN  IF kind = "none" THEN before ELSE [before EXCEPT ![kind] = file]

\* The locators the listing gives session s of candidate c, its entries met
\* in one order.
Locators(fl, c, s) == MapFiles(SetToSeq(EntriesOf(fl, c, s)))

\* The link set next to a locator: `/files/` and the path under
\* candidate-data on the filesystem, the object's https url on the object
\* store.
LinkTo(c, s, file) ==
    IF storageType = "filesystem"
    THEN <<"/files", "candidate-data", c, s, file>>
    ELSE <<"https://<bucket>.s3.<region>.amazonaws.com", "<prefix>", c, s, file>>

\* createdAt: null.
NoTime == 0

\* let metadata = {} / let candidateProfile = {}
EmptyDoc == [f \in {} |-> <<>>]

\* ReadDocument as a parser that salvages the fields of a truncated document.
ReadDocumentLenient(text) ==
    LET at == {i \in 1..Len(text) : text[i].t = "kv"}
    IN  [f \in {text[i].k : i \in at} |->
            text[CHOOSE i \in at : text[i].k = f /\ \A j \in at : text[j].k = f => j <= i].v]

\* try { JSON.parse(await read(...)) } catch { warn }: the parsed document, or
\* the empty document the variable was initialised with.
ReadDocument(text) ==
    IF IsJsonObject(text)
    THEN [f \in ParsedFields(text) |-> ParsedValue(text, f)]
    ELSE EmptyDoc

\* doc.field, undefined (the empty sequence) when the document has none.
Field(doc, f) == IF f \in DOMAIN doc THEN doc[f] ELSE <<>>

\* A listing's storage faults: the directories, prefixes and documents whose
\* enumeration or read fails during the call, each with the error's code.
NoFaults == [p \in {} |-> "none"]

\* The bytes a read of the document at path p gives, or the empty text when
\* the read throws (the catch around the read leaves the document empty, as
\* it does for a text that does not parse).
ReadFile(flt, fl, p) == IF p \in DOMAIN flt THEN <<>> ELSE fl[p].data

\* The record pushed for session s of candidate c, under the faults flt, the
\* session's entries met in the order `entries`.
SessionEntryIn(flt, fl, c, s, entries) ==
    LET loc      == MapFiles(entries)
        metaText == IF loc["metadata"] = <<>> THEN <<>>
                    ELSE ReadFile(flt, fl, <<c, s, loc["metadata"]>>)
        profText == IF loc["profile"] = <<>> THEN <<>>
                    ELSE ReadFile(flt, fl, <<c, s, loc["profile"]>>)
        metadata == ReadDocument(metaText)
        profile  == ReadDocument(profText)
    IN  [sessionId |-> s,
         candidateId |-> c,
         files |-> loc,
         links |-> [k \in Kinds |-> IF loc[k] = <<>> THEN <<>> ELSE LinkTo(c, s, loc[k])],
         metadata |-> metadata,
         candidateProfile |->
            IF ~IsJsonObject(profText)
            THEN EmptyDoc
            ELSE [name |-> Field(profile, "candidate_name"),
                  summary |-> Field(profile, "summary")],
         createdAt |-> IF "processed_at" \in DOMAIN metadata
                       THEN metadata["processed_at"] ELSE NoTime,
         originalFilename |-> Field(metadata, "original_filename")]

\* The record pushed for session s of candidate c, under the faults flt.
SessionEntryUnder(flt, fl, c, s) ==
    SessionEntryIn(flt, fl, c, s, SetToSeq(EntriesOf(fl, c, s)))

\* The record pushed for session s of candidate c when every read succeeds.
SessionEntry(fl, c, s) == SessionEntryUnder(NoFaults, fl, c, s)

\* The comparator of the sorts: (a, b) => 0 when either date is missing, else
\* new Date(b) - new Date(a).
CompareNewestFirst(a, b) == IF a = NoTime \/ b = NoTime THEN 0 ELSE b - a

Reverse(s) == [i \in 1..Len(s) |-> s[Len(s) + 1 - i]]

\* Array.prototype.sort as Node runs it on an array shorter than 64: the run
\* at the head of the array is found (descending if the second element sorts
\* before the first, and then reversed), and every later element is put in
\* place by binary insertion. `a` holds indices into the keys `ts`.
RECURSIVE RunEnd(_, _, _, _)
RunEnd(ts, a, desc, i) ==
    IF i = Len(a) THEN i
    ELSE LET order == CompareNewestFirst(ts[a[i + 1]], ts[a[i]])
         IN  IF (desc /\ order >= 0) \/ (~desc /\ order < 0) THEN i
             ELSE RunEnd(ts, a, desc, i + 1)

CountAndMakeRun(ts, a) ==
    LET desc == CompareNewestFirst(ts[a[2]], ts[a[1]]) < 0
        run  == RunEnd(ts, a, desc, 2)
    IN  [run |-> run,
         a |-> IF desc THEN Reverse(SubSeq(a, 1, run)) \o SubSeq(a, run + 1, Len(a)) ELSE a]

RECURSIVE InsertionPoint(_, _, _, _, _)
InsertionPoint(ts, a, pivot, left, right) ==
    IF left >= right THEN left
    ELSE LET mid == left + ((right - left) \div 2)
         IN  IF CompareNewestFirst(ts[pivot], ts[a[mid]]) < 0
             THEN InsertionPoint(ts, a, pivot, left, mid)
             ELSE InsertionPoint(ts, a, pivot, mid + 1, right)

RECURSIVE BinaryInsertionSort(_, _, _)
BinaryInsertionSort(ts, a, start) ==
    IF start > Len(a) THEN a
    ELSE LET left == InsertionPoint(ts, a, a[start], 1, start)
         IN  BinaryInsertionSort(ts,
                 SubSeq(a, 1, left - 1) \o <<a[start]>> \o SubSeq(a, left, start - 1)
                     \o SubSeq(a, start + 1, Len(a)),
                 start + 1)

\* The order in which the sort leaves the elements whose dates are `ts`.
ArraySort(ts) ==
    IF Len(ts) < 2 THEN [i \in 1..Len(ts) |-> i]
    ELSE LET made == CountAndMakeRun(ts, [i \in 1..Len(ts) |-> i])
         IN  BinaryInsertionSort(ts, made.a, made.run + 1)

\* items.sort(comparator), `ts` the date of each item.
SortNewestFirst(items, ts) == LET o == ArraySort(ts) IN [i \in 1..Len(items) |-> items[o[i]]]

Ok(list) == [ok |-> TRUE, list |-> list]

Failed(code) == [ok |-> FALSE, code |-> code]

\* OnListError as a handler that passes every error on.
Rethrow(code) == Failed(code)

\* OnListError as a handler that turns every error into the empty list.
SwallowAll(code) == Ok(<<>>)

\* catch (error) { if (error.code === 'ENOENT') return []; throw error; }
OnListError(code) == IF code = "ENOENT" THEN Ok(<<>>) ELSE Failed(code)

\* OnS3ListError as the filesystem's handler, with the object store's code
\* for a missing bucket.
OnS3ListErrorLikeFs(code) == IF code = "NoSuchBucket" THEN Ok(<<>>) ELSE Failed(code)

\* OnS3ListError as a handler that logs and rethrows.
OnS3ListErrorThrow(code) == Failed(code)

\* catch (error) { console.error(...); return []; }
OnS3ListError(code) == Ok(<<>>)

\* The first element of `order` whose enumeration fails under flt, 0 if none.
FirstFaulty(flt, c, order) ==
    LET bad == {i \in 1..Len(order) : <<c, order[i]>> \in DOMAIN flt}
    IN  IF bad = {} THEN 0 ELSE CHOOSE i \in bad : \A j \in bad : i <= j

\* _listFilesystemSessions / _listS3Sessions of candidate c under the faults
\* flt, `order` the order in which the session directories or prefixes are
\* met. On the filesystem a failing readdir, of the candidate directory or of
\* a session directory, leaves the try block; on the object store a failing
\* list of the candidate's prefix does, while a failing list of a session's
\* prefix makes _getS3SessionData return null and the session is skipped.
ListSessionsUnder(flt, dirs, fl, c, order) ==
    IF storageType = "filesystem"
    THEN IF <<c>> \in DOMAIN flt THEN OnListError(flt[<<c>>])
         ELSE IF <<c>> \notin dirs THEN OnListError("ENOENT")
         ELSE IF FirstFaulty(flt, c, order) # 0
         THEN OnListError(flt[<<c, order[FirstFaulty(flt, c, order)]>>])
         ELSE LET entries == [i \in 1..Len(order) |-> SessionEntryUnder(flt, fl, c, order[i])]
              IN  Ok(SortNewestFirst(entries, [i \in 1..Len(order) |-> entries[i].createdAt]))
    ELSE IF <<c>> \in DOMAIN flt THEN OnS3ListError(flt[<<c>>])
         ELSE LET got     == SelectSeq(order, LAMBDA s : <<c, s>> \notin DOMAIN flt)
                  entries == [i \in 1..Len(got) |-> SessionEntryUnder(flt, fl, c, got[i])]
              IN  Ok(SortNewestFirst(entries, [i \in 1..Len(got) |-> entries[i].createdAt]))

\* The listing of c's sessions when the storage answers every call.
ListSessions(dirs, fl, c, order) == ListSessionsUnder(NoFaults, dirs, fl, c, order)

\* CandidateInfo counting only the sessions that carry a date.
CandidateInfoCountingDated(c, sessions) ==
    [candidateId |-> c,
     sessionCount |-> Cardinality({i \in 1..Len(sessions) : sessions[i].createdAt # NoTime}),
     lastActivity |-> IF sessions = <<>> THEN NoTime ELSE sessions[1].createdAt,
     name |-> IF sessions = <<>> THEN <<>> ELSE Field(sessions[1].candidateProfile, "name")]

\* The roster entry of candidate c, from its sessions as listed.
CandidateInfo(c, sessions) ==
    [candidateId |-> c,
     sessionCount |-> Len(sessions),
     lastActivity |-> IF sessions = <<>> THEN NoTime ELSE sessions[1].createdAt,
     name |-> IF sessions = <<>> THEN <<>> ELSE Field(sessions[1].candidateProfile, "name")]

\* catch of the candidates listing, by backend.
OnRosterError(code) ==
    IF storageType = "filesystem" THEN OnListError(code) ELSE OnS3ListError(code)

\* _listFilesystemCandidates / _listS3Candidates under the faults flt: `order`
\* the order in which the candidates are met, `sorders[c]` the one in which
\* c's sessions are. An error thrown by the listing of a candidate's sessions
\* reaches the catch of the candidates listing.
ListCandidatesUnder(flt, dirs, fl, order, sorders) ==
    IF <<>> \in DOMAIN flt THEN OnRosterError(flt[<<>>])
    ELSE IF storageType = "filesystem" /\ <<>> \notin dirs THEN OnRosterError("ENOENT")
    ELSE LET listed == [i \in 1..Len(order) |->
                            ListSessionsUnder(flt, dirs, fl, order[i], sorders[order[i]])]
             failed == {i \in 1..Len(order) : ~listed[i].ok}
             infos  == [i \in 1..Len(order) |-> CandidateInfo(order[i], listed[i].list)]
         IN  IF failed # {}
             THEN OnRosterError(listed[CHOOSE i \in failed : \A j \in failed : i <= j].code)
             ELSE Ok(SortNewestFirst(infos, [i \in 1..Len(order) |-> infos[i].lastActivity]))

\* The roster when the storage answers every call.
ListCandidatesIn(dirs, fl, order, sorders) ==
    ListCandidatesUnder(NoFaults, dirs, fl, order, sorders)

\* ------------------------------------------------------- stored snapshots
\* The candidates a listing may be asked for; the last one is never stored.
AskedCandidates == {<<"c","1">>, <<"c","2">>, <<"c","3">>}

\* The sessions of candidate c1 in a snapshot: three, the fewest among which
\* a session without a date can stand between two with one.
SessionSlots == {1, 2, 3}

\* What a slot of c1 holds: no session, or a session whose metadata.json is
\* absent, cut short, as processAudio writes it (processedAt), or written by
\* another caller of saveCandidateData with processed_at.
SlotVariants ==
    {[meta |-> m, at |-> NoTime] : m \in {"nodir", "nometa", "malformed", "plain"}}
        \cup {[meta |-> "timed", at |-> t] : t \in 1..MaxTime}

\* What candidate c2's only session holds: metadata.json and
\* candidate_profile.json, each absent, cut short or whole.
OtherVariants ==
    {[meta |-> "nodir", prof |-> "none"],
     [meta |-> "nometa", prof |-> "none"],
     [meta |-> "timed", prof |-> "whole"],
     [meta |-> "timed", prof |-> "malformed"],
     [meta |-> "malformed", prof |-> "malformed"]}

TimedMetadata(c, at) ==
    [candidateId |-> c, processed_at |-> at, original_filename |-> <<"a",".","m","p","3">>]

\* A document whose write was cut short: the closing brace is missing.
CutShort(text) == SubSeq(text, 1, Len(text) - 1)

\* The files of a session of the snapshot, by filename.
StoredSession(c, meta, at, prof) ==
    [f \in {TRANSCRIPT_TXT}
            \cup (IF meta \in {"malformed", "plain", "timed"} THEN {METADATA_JSON} ELSE {})
            \cup (IF prof \in {"malformed", "whole"} THEN {PROFILE_JSON} ELSE {}) |->
        IF f = TRANSCRIPT_TXT THEN [data |-> Chars(<<"t">>), by |-> 0, as |-> "transcript"]
        ELSE IF f = METADATA_JSON
        THEN [data |-> CASE meta = "plain" ->
                                Stringify(MetadataDoc(c, <<"a",".","m","p","3">>, 1))
                          [] meta = "timed" -> Stringify(TimedMetadata(c, at))
                          [] meta = "malformed" ->
                                CutShort(Stringify(TimedMetadata(c, MaxTime))),
              by |-> 0, as |-> "metadata"]
        ELSE [data |-> IF prof = "whole" THEN Stringify(ProfileDoc(<<"A","l">>))
                       ELSE CutShort(Stringify(ProfileDoc(<<"A","l">>))),
              by |-> 0, as |-> "profile"]]

\* The store holding c1's slots as `v` gives them and c2's session as `w`.
SnapshotFiles(v, w) ==
    LET own   == {<<<<"c","1">>, GenerateSessionId(i), f>> :
                     i \in {j \in SessionSlots : v[j].meta # "nodir"},
                     f \in {TRANSCRIPT_TXT, METADATA_JSON, PROFILE_JSON}}
        other == IF w.meta = "nodir" THEN {}
                 ELSE {<<<<"c","2">>, GenerateSessionId(1), f>> :
                          f \in {TRANSCRIPT_TXT, METADATA_JSON, PROFILE_JSON}}
        slot(p) == CHOOSE i \in SessionSlots : GenerateSessionId(i) = p[2]
        held(p) == IF p[1] = <<"c","1">>
                   THEN StoredSession(p[1], v[slot(p)].meta, v[slot(p)].at,
                                      IF v[slot(p)].meta = "plain" THEN "whole" ELSE "none")
                   ELSE StoredSession(p[1], w.meta, 1, w.prof)
        paths == {p \in own \cup other : p[3] \in DOMAIN held(p)}
    IN  [p \in paths |-> held(p)[p[3]]]

\* The directories the files of fl lie in.
DirsOf(fl) ==
    UNION {{<<>>, <<p[1]>>, <<p[1], p[2]>>} : p \in DOMAIN fl}

\* The store as a listing finds it: written earlier by this program or by
\* another writer of the same layout. On the filesystem the root may be
\* missing, and candidate directories may be empty.
InitList ==
    /\ storageType \in {"filesystem", "s3"}
    /\ \E v \in [SessionSlots -> SlotVariants], w \in OtherVariants :
          /\ files = SnapshotFiles(v, w)
          /\ fsDirs \in (IF storageType = "s3" THEN {{}}
                         ELSE {DirsOf(SnapshotFiles(v, w)) \cup extra :
                                  extra \in {{}, {<<>>},
                                             {<<>>, <<<<"c","1">>>>, <<<<"c","2">>>>}}})
    /\ call = NoCall
    /\ NoRequests

\* The orders in which the sessions of each candidate of S may be met.
SessionOrders(S) ==
    {f \in [S -> UNION {Enumerations(ListedSessionIds(fsDirs, files, c)) : c \in S}] :
        \A c \in S : f[c] \in Enumerations(ListedSessionIds(fsDirs, files, c))}

\* listCandidates(), called on the stored snapshot.
ListCandidates ==
    /\ call = NoCall
    /\ \E order \in Enumerations(ListedCandidateIds(fsDirs, files)) :
          \E sorders \in SessionOrders(ListedCandidateIds(fsDirs, files)) :
             call' = [op |-> "listCandidates", order |-> order, sorders |-> sorders,
                      result |-> ListCandidatesIn(fsDirs, files, order, sorders)]
    /\ UNCHANGED <<storageType, now, fsDirs, files, req, pc, sid, wr, firstErr, result,
                   gts, response, faults>>

\* listCandidateSessions(c), called on the stored snapshot.
ListCandidateSessions(c) ==
    /\ call = NoCall
    /\ \E order \in Enumerations(ListedSessionIds(fsDirs, files, c)) :
          call' = [op |-> "listCandidateSessions", candidateId |-> c, order |-> order,
                   result |-> ListSessions(fsDirs, files, c, order)]
    /\ UNCHANGED <<storageType, now, fsDirs, files, req, pc, sid, wr, firstErr, result,
                   gts, response, faults>>

NextList ==
    \/ ListCandidates
    \/ \E c \in AskedCandidates : ListCandidateSessions(c)

SpecList == InitList /\ [][NextList]_vars

\* ------------------------------------------------------- stored rosters
\* What the only session of a candidate of a roster holds: no session, one
\* without a metadata document, or one whose metadata document has a date.
RosterVariants ==
    {[meta |-> m, at |-> NoTime] : m \in {"nodir", "nometa"}}
        \cup {[meta |-> "timed", at |-> t] : t \in 1..MaxTime}

\* The store whose candidates each hold the session u gives them.
RosterFiles(u) ==
    LET held(c) == StoredSession(c, u[c].meta, u[c].at,
                                 IF u[c].meta = "timed" THEN "whole" ELSE "none")
        paths == {<<c, GenerateSessionId(1), f>> :
                     c \in {d \in AskedCandidates : u[d].meta # "nodir"},
                     f \in {TRANSCRIPT_TXT, METADATA_JSON, PROFILE_JSON}}
    IN  [p \in {q \in paths : q[3] \in DOMAIN held(q[1])} |-> held(p[1])[p[3]]]

\* A store of up to three candidates, as a listing finds it.
InitRoster ==
    /\ storageType \in {"filesystem", "s3"}
    /\ \E u \in [AskedCandidates -> RosterVariants] :
          /\ files = RosterFiles(u)
          /\ fsDirs = (IF storageType = "s3" THEN {} ELSE DirsOf(RosterFiles(u)))
    /\ call = NoCall
    /\ NoRequests

SpecRoster == InitRoster /\ [][NextList]_vars

\* ------------------------------------------------ listing a failing store
\* error.code of a failing readdir or readFile; error.name of a failing
\* request to the object store.
ErrorCodes ==
    IF storageType = "filesystem"
    THEN {"ENOENT", "EACCES", "ENOTDIR"}
    ELSE {"NoSuchBucket", "AccessDenied", "NetworkingError"}

\* What a listing enumerates or reads: the root or key prefix, the candidate
\* and session directories or prefixes, the metadata and profile documents.
FaultPoints(dirs, fl) ==
    {<<>>} \cup dirs \cup DirsOf(fl)
        \cup {p \in DOMAIN fl : p[3] \in {METADATA_JSON, PROFILE_JSON}}

\* The faults one listing may meet.
FaultSets(dirs, fl) ==
    UNION {[D -> ErrorCodes] :
              D \in {X \in SUBSET FaultPoints(dirs, fl) : Cardinality(X) <= MaxListFaults}}

\* What a session slot of c1 holds in the stores listed under faults: no
\* session, or one with a transcript, a metadata and a profile document.
FaultySlotVariants == {[meta |-> m, at |-> NoTime] : m \in {"nodir", "plain"}}

\* A store as a listing finds it, some of whose calls will fail.
InitFaults ==
    /\ storageType \in {"filesystem", "s3"}
    /\ \E v \in [SessionSlots -> FaultySlotVariants] :
       \E w \in {[meta |-> "nodir", prof |-> "none"], [meta |-> "timed", prof |-> "whole"]} :
          /\ v[3].meta = "nodir"
          /\ files = SnapshotFiles(v, w)
          /\ fsDirs \in (IF storageType = "s3" THEN {{}}
                         ELSE {DirsOf(SnapshotFiles(v, w)) \cup extra :
                                  extra \in {{}, {<<>>, <<<<"c","1">>>>}}})
    /\ call = NoCall
    /\ NoRequests

\* listCandidates(), some of whose storage calls fail.
ListCandidatesFaulty ==
    /\ call = NoCall
    /\ \E flt \in FaultSets(fsDirs, files) :
       \E order \in Enumerations(ListedCandidateIds(fsDirs, files)) :
       \E sorders \in SessionOrders(ListedCandidateIds(fsDirs, files)) :
          call' = [op |-> "listCandidates", faults |-> flt, order |-> order,
                   sorders |-> sorders,
                   result |-> ListCandidatesUnder(flt, fsDirs, files, order, sorders)]
    /\ UNCHANGED <<storageType, now, fsDirs, files, req, pc, sid, wr, firstErr, result,
                   gts, response, faults>>

\* listCandidateSessions(c), some of whose storage calls fail.
ListCandidateSessionsFaulty(c) ==
    /\ call = NoCall
    /\ \E flt \in FaultSets(fsDirs, files) :
       \E order \in Enumerations(ListedSessionIds(fsDirs, files, c)) :
          call' = [op |-> "listCandidateSessions", candidateId |-> c, faults |-> flt,
                   order |-> order,
                   result |-> ListSessionsUnder(flt, fsDirs, files, c, order)]
    /\ UNCHANGED <<storageType, now, fsDirs, files, req, pc, sid, wr, firstErr, result,
                   gts, response, faults>>

NextFaults ==
    \/ ListCandidatesFaulty
    \/ \E c \in AskedCandidates : ListCandidateSessionsFaulty(c)

SpecFaults == InitFaults /\ [][NextFaults]_vars

\* ----------------------------------------------- configuration and facade
\* process.env as far as the configuration of the storage reads it; the empty
\* string is a variable that is not set.
EnvVars ==
    [STORAGE_TYPE : {"", "filesystem", "s3", "gcs"},
     OPENAI_API_KEY : {"", "sk"},
     S3_BUCKET_NAME : {"", "bucket"},
     S3_ACCESS_KEY_ID : {"", "id"},
     S3_SECRET_ACCESS_KEY : {"", "secret"},
     CANDIDATE_DATA_PATH : {"", "data"}]

\* process.env.X || fallback
OrElse(v, fallback) == IF v = "" THEN fallback ELSE v

\* buildStorageConfig(): the object store's settings when STORAGE_TYPE is s3,
\* the filesystem's for every other value.
BuildStorageConfig(env) ==
    IF OrElse(env.STORAGE_TYPE, "filesystem") = "s3"
    THEN [bucketName |-> env.S3_BUCKET_NAME,
          region |-> "us-east-1",
          accessKeyId |-> env.S3_ACCESS_KEY_ID,
          secretAccessKey |-> env.S3_SECRET_ACCESS_KEY,
          candidateDataPrefix |-> "candidate-data"]
    ELSE [candidateDataPath |-> OrElse(env.CANDIDATE_DATA_PATH, "candidate-data"),
          processedDataPath |-> "processed-data"]

\* The configuration object loadConfig builds.
BuildConfig(env) ==
    [server |-> [port |-> "3000"],
     storage |-> [type |-> OrElse(env.STORAGE_TYPE, "filesystem"),
                  config |-> BuildStorageConfig(env)],
     openai |-> [apiKey |-> env.OPENAI_API_KEY],
     timezone |-> "Asia/Kolkata"]

\* value === undefined || value === null || value === ''
Missing(v) == v = ""

\* validateConfig: the message of the error it throws, or "valid". A storage
\* type that is neither s3 nor filesystem has no settings to validate.
ValidateConfig(config) ==
    IF \/ Missing(config.server.port) \/ Missing(config.storage.type)
       \/ Missing(config.openai.apiKey) \/ Missing(config.timezone)
    THEN "Missing required configuration"
    ELSE IF config.storage.type = "s3"
    THEN IF \/ Missing(config.storage.config.bucketName)
            \/ Missing(config.storage.config.region)
            \/ Missing(config.storage.config.accessKeyId)
            \/ Missing(config.storage.config.secretAccessKey)
         THEN "Missing required S3 configuration"
         ELSE "valid"
    ELSE IF config.storage.type = "filesystem"
    THEN IF \/ Missing(config.storage.config.candidateDataPath)
            \/ Missing(config.storage.config.processedDataPath)
         THEN "Missing required filesystem configuration"
         ELSE "valid"
    ELSE "valid"

\* The process starts with some environment; no module is loaded yet.
InitFacade ==
    /\ storageType = "none"
    /\ fsDirs \in {{}, {<<>>}}
    /\ files = <<>>
    /\ call \in [op : {"env"}, env : EnvVars]
    /\ NoRequests

\* const config = loadConfig(): the module's load fails when validateConfig
\* throws.
LoadConfig ==
    /\ call.op = "env"
    /\ LET config == BuildConfig(call.env)
       IN  call' = IF ValidateConfig(config) = "valid"
                   THEN [op |-> "config", config |-> config]
                   ELSE [op |-> "failed", error |-> ValidateConfig(config)]
    /\ UNCHANGED <<storageType, now, fsDirs, files, req, pc, sid, wr, firstErr, result,
                   gts, response, faults>>

\* new StorageManager(): takes the storage type from the configuration and
\* makes the client when the type is s3.
Construct ==
    /\ call.op = "config"
    /\ storageType' = call.config.storage.type
    /\ call' = [op |-> "constructed", s3Client |-> call.config.storage.type = "s3"]
    /\ UNCHANGED <<now, fsDirs, files, req, pc, sid, wr, firstErr, result, gts,
                   response, faults>>

\* The storageManager instance exists.
Constructed == call.op \notin {"none", "env", "config", "failed"}

\* What an async function that ends without a return statement resolves to.
Undefined == [ok |-> TRUE, undefined |-> TRUE]

\* listCandidates() of the facade.
FacadeListCandidates ==
    /\ Constructed
    /\ IF storageType \in {"filesystem", "s3"}
       THEN \E order \in Enumerations(ListedCandidateIds(fsDirs, files)) :
            \E sorders \in SessionOrders(ListedCandidateIds(fsDirs, files)) :
               call' = [op |-> "listCandidates", order |-> order, sorders |-> sorders,
                        result |-> ListCandidatesIn(fsDirs, files, order, sorders)]
       ELSE call' = [op |-> "listCandidates", result |-> Undefined]
    /\ UNCHANGED <<storageType, now, fsDirs, files, req, pc, sid, wr, firstErr, result,
                   gts, response, faults>>

\* listCandidateSessions(c) of the facade.
FacadeListCandidateSessions(c) ==
    /\ Constructed
    /\ IF storageType \in {"filesystem", "s3"}
       THEN \E order \in Enumerations(ListedSessionIds(fsDirs, files, c)) :
               call' = [op |-> "listCandidateSessions", candidateId |-> c, order |-> order,
                        result |-> ListSessions(fsDirs, files, c, order)]
       ELSE call' = [op |-> "listCandidateSessions", candidateId |-> c,
                     result |-> Undefined]
    /\ UNCHANGED <<storageType, now, fsDirs, files, req, pc, sid, wr, firstErr, result,
                   gts, response, faults>>

\* saveCandidateData of the facade, as far as its own body goes: the sessionId
\* is generated, then the call is handed to the backend's save or, for any
\* other storage type, rejected.
FacadeSaveCandidateData(c) ==
    /\ Constructed
    /\ call' = [op |-> "saveCandidateData", candidateId |-> c,
                sessionId |-> GenerateSessionId(now),
                handedTo |-> IF storageType \in {"filesystem", "s3"}
                             THEN storageType ELSE "none",
                result |-> IF storageType \in {"filesystem", "s3"}
                           THEN Pending ELSE Rejected("Unsupported storage type")]
    /\ UNCHANGED <<storageType, now, fsDirs, files, req, pc, sid, wr, firstErr, result,
                   gts, response, faults>>

\* The keys, bodies and content types uploadToS3 is called with.
UploadKeys ==
    {<<<<"c","1">>, GenerateSessionId(1), GeneratedFilename(<<"A","l">>, 1, ext)>> :
        ext \in {DOT_HTML, DOT_PDF}}

UploadBodies == {<<[t |-> "html", r |-> 1]>>, <<[t |-> "pdf", r |-> 1]>>}

ContentTypes == {"text/html", "application/pdf"}

\* uploadToS3 as a method without the check of the storage type.
UploadAnywhere == TRUE

\* if (this.storageType !== 's3') throw ...
UploadSupported == storageType = "s3"

\* uploadToS3(key, content, contentType): one PutObjectCommand sent on the
\* object store, which stores the object or fails; an error thrown before
\* anything is sent on every other storage type.
UploadToS3(key, content, contentType) ==
    /\ Constructed
    /\ IF ~UploadSupported
       THEN /\ call' = [op |-> "uploadToS3", key |-> key, content |-> content,
                        contentType |-> contentType, sent |-> <<>>,
                        result |-> Failed("S3 upload is only available when storage type is s3")]
            /\ files' = files
       ELSE \E stored \in BOOLEAN :
               /\ call' = [op |-> "uploadToS3", key |-> key, content |-> content,
                           contentType |-> contentType,
                           sent |-> <<[Key |-> key, Body |-> content,
                                       ContentType |-> contentType]>>,
                           result |-> IF stored THEN Ok(<<>>) ELSE Failed("S3ServiceException")]
               /\ files' = IF stored THEN Store(key, content, 0, "raw") ELSE files
    /\ UNCHANGED <<storageType, now, fsDirs, req, pc, sid, wr, firstErr, result, gts,
                   response, faults>>

NextFacade ==
    \/ LoadConfig
    \/ Construct
    \/ FacadeListCandidates
    \/ \E c \in {<<"c","1">>} : FacadeListCandidateSessions(c)
    \/ \E c \in {<<"c","1">>} : FacadeSaveCandidateData(c)
    \/ \E key \in UploadKeys, content \in UploadBodies, contentType \in ContentTypes :
          UploadToS3(key, content, contentType)

SpecFacade == InitFacade /\ [][NextFacade]_vars

\* ------------------------------------------------------------ serving files
CANDIDATE_DATA == <<"c","a","n","d","i","d","a","t","e","-","d","a","t","a">>

\* The segments of a path: its parts between the slashes.
RECURSIVE Split(_)
Split(path) ==
    IF \A i \in 1..Len(path) : path[i] # "/" THEN <<path>>
    ELSE LET at == CHOOSE i \in 1..Len(path) :
                      path[i] = "/" /\ \A j \in 1..(i - 1) : path[j] # "/"
         IN  <<SubSeq(path, 1, at - 1)>> \o Split(SubSeq(path, at + 1, Len(path)))

\* path.join / path.normalize on segments: empty and "." segments go, ".."
\* takes the segment before it away, or stays when there is none to take.
RECURSIVE Normalize(_)
Normalize(segs) ==
    IF segs = <<>> THEN <<>>
    ELSE LET before == Normalize(SubSeq(segs, 1, Len(segs) - 1))
             seg    == segs[Len(segs)]
         IN  IF seg = <<>> \/ seg = <<".">> THEN before
             ELSE IF seg = <<".",".">> /\ before # <<>> /\ before[Len(before)] # <<".",".">>
             THEN SubSeq(before, 1, Len(before) - 1)
             ELSE Append(before, seg)

\* path.join(base, path), as segments below base.
PathJoin(base, path) == Normalize(base \o Split(path))

\* segments joined by slashes.
RECURSIVE JoinSegments(_)
JoinSegments(segs) ==
    IF segs = <<>> THEN <<>>
    ELSE IF Len(segs) = 1 THEN segs[1]
    ELSE segs[1] \o <<"/">> \o JoinSegments(SubSeq(segs, 2, Len(segs)))

\* A file of the working directory that is not candidate data.
DOT_ENV == <<".","e","n","v">>

\* What the server's working directory holds at the path `at` (segments below
\* the working directory): the candidate data below candidate-data when the
\* storage is the filesystem, and one file beside it.
OnDisk(at) ==
    IF at = <<DOT_ENV>> THEN [kind |-> "file", data |-> Chars(<<"k">>)]
    ELSE IF at = <<>> THEN [kind |-> "dir"]
    ELSE IF storageType = "filesystem" /\ at[1] = CANDIDATE_DATA
    THEN LET below == SubSeq(at, 2, Len(at))
         IN  IF below \in DOMAIN files THEN [kind |-> "file", data |-> files[below].data]
             ELSE IF below \in fsDirs \cup DirsOf(files) THEN [kind |-> "dir"]
             ELSE [kind |-> "none"]
    ELSE [kind |-> "none"]

\* The check of the prefix as one that leaves the slash out.
AccessAllowedNoSlash(filePath) == StartsWith(filePath, CANDIDATE_DATA)

\* filePath.startsWith('candidate-data/')
AccessAllowed(filePath) == StartsWith(filePath, CANDIDATE_DATA \o <<"/">>)

\* The content type serveFile sets for the extension of the path.
ContentTypeOf(fullPath) ==
    LET ext == ToLowerCase(Extname(JoinSegments(fullPath)))
    IN  CASE ext = DOT_MP3 -> "audio/mpeg"
          [] ext = <<".","t","x","t">> -> "text/plain"
          [] ext = <<".","j","s","o","n">> -> "application/json"
          [] ext = DOT_HTML -> "text/html"
          [] ext = DOT_PDF -> "application/pdf"
          [] OTHER -> "application/octet-stream"

Answer(status, touched, body) == [status |-> status, touched |-> touched, body |-> body]

\* serveFile for the path after /files/: the status of the response, the
\* paths the handler has given to fs calls, the bytes streamed.
ServeFileResult(filePath) ==
    IF filePath = <<>> THEN Answer(400, {}, <<>>)
    ELSE IF ~AccessAllowed(filePath) THEN Answer(403, {}, <<>>)
    ELSE LET fullPath == PathJoin(<<>>, filePath)
         IN  CASE OnDisk(fullPath).kind = "none" -> Answer(404, {fullPath}, <<>>)
               [] OnDisk(fullPath).kind = "dir" -> Answer(500, {fullPath}, <<>>)
               [] OTHER -> [status |-> 200, touched |-> {fullPath},
                            body |-> OnDisk(fullPath).data,
                            contentType |-> ContentTypeOf(fullPath)]

\* The paths requested after /files/.
RequestedPaths ==
    LET inside == JoinSegments(<<CANDIDATE_DATA, <<"c","1">>, GenerateSessionId(1)>>)
    IN  {<<>>,
         inside \o <<"/">> \o TRANSCRIPT_TXT,
         inside \o <<"/">> \o METADATA_JSON,
         inside \o <<"/">> \o <<"n","o">>,
         inside,
         CANDIDATE_DATA,
         CANDIDATE_DATA \o <<"/">>,
         CANDIDATE_DATA \o <<"x","/">> \o DOT_ENV,
         <<"C">> \o SubSeq(inside, 2, Len(inside)) \o <<"/">> \o TRANSCRIPT_TXT,
         DOT_ENV,
         <<"/">> \o inside \o <<"/">> \o TRANSCRIPT_TXT,
         <<".","/">> \o inside \o <<"/">> \o TRANSCRIPT_TXT,
         <<".",".","/">> \o DOT_ENV,
         CANDIDATE_DATA \o <<"/",".",".","/">> \o DOT_ENV}

\* The server runs on a store some sessions were written to.
InitServe ==
    /\ storageType \in {"filesystem", "s3"}
    /\ \E v \in [SessionSlots -> FaultySlotVariants] :
       \E w \in {[meta |-> "nodir", prof |-> "none"], [meta |-> "timed", prof |-> "whole"]} :
          /\ v[3].meta = "nodir"
          /\ files = SnapshotFiles(v, w)
          /\ fsDirs = (IF storageType = "s3" THEN {} ELSE DirsOf(SnapshotFiles(v, w)))
    /\ call = NoCall
    /\ NoRequests

\* GET /files/<filePath>
ServeFile(filePath) ==
    /\ call' = [op |-> "serveFile", filePath |-> filePath,
                result |-> ServeFileResult(filePath)]
    /\ UNCHANGED <<storageType, now, fsDirs, files, req, pc, sid, wr, firstErr, result,
                   gts, response, faults>>

NextServe == \E filePath \in RequestedPaths : ServeFile(filePath)

SpecServe == InitServe /\ [][NextServe]_vars

\* ------------------------------------------------- candidate ids in paths
\* req.params.candidateId as the router may hand it to processAudio: absent,
\* a plain id, and ids with dot segments or slashes.
RequestedIds ==
    {<<>>,
     <<"c","1">>,
     <<".",".">>,
     <<".",".","/",".",".">>,
     <<"/","c","1">>,
     <<"c","1","/",".",".","/",".",".","/","x">>,
     <<".">>}

\* A request for processAudio arrives.
InitPaths ==
    /\ storageType \in {"filesystem", "s3"}
    /\ fsDirs = {}
    /\ files = <<>>
    /\ call \in [op : {"request"}, candidateId : RequestedIds, hasFile : BOOLEAN,
                 at : 1..MaxClock]
    /\ NoRequests

\* processAudio's checks of the request: a candidateId and an uploaded file
\* must be present.
CheckRequest ==
    /\ call.op = "request"
    /\ call' = IF call.candidateId = <<>> \/ ~call.hasFile
               THEN [op |-> "refused", status |-> 400]
               ELSE [op |-> "accepted", candidateId |-> call.candidateId, at |-> call.at]
    /\ UNCHANGED <<storageType, now, fsDirs, files, req, pc, sid, wr, firstErr, result,
                   gts, response, faults>>

\* Where the session of candidateId is kept. On the filesystem
\* path.join(candidateDataPath, candidateId, sessionId), as the segments the
\* joined path has below the working directory; on the object store the key
\* `${candidateDataPrefix}/${candidateId}/${sessionId}`, as its segments.
SessionFolderOn(type, candidateId, sessionId) ==
    IF type = "filesystem"
    THEN PathJoin(PathJoin(<<CANDIDATE_DATA>>, candidateId), sessionId)
    ELSE Split(CANDIDATE_DATA \o <<"/">> \o candidateId \o <<"/">> \o sessionId)

\* The session's folder or base key on the configured backend.
SessionFolder(candidateId, sessionId) == SessionFolderOn(storageType, candidateId, sessionId)

\* saveCandidateData names the session and its folder or base key.
NameSession ==
    /\ call.op = "accepted"
    /\ call' = [op |-> "saving", candidateId |-> call.candidateId,
                sessionId |-> GenerateSessionId(call.at),
                folder |-> SessionFolder(call.candidateId, GenerateSessionId(call.at)),
                written |-> {}]
    /\ UNCHANGED <<storageType, now, fsDirs, files, req, pc, sid, wr, firstErr, result,
                   gts, response, faults>>

\* One of the artifacts of the session is written, under the folder or key.
WriteArtifact(kind) ==
    /\ call.op = "saving"
    /\ call' = [call EXCEPT !.written = @ \cup
                  {Append(call.folder,
                          KeyName(kind, call.sessionId, <<"a",".","m","p","3">>, <<>>, 1))}]
    /\ UNCHANGED <<storageType, now, fsDirs, files, req, pc, sid, wr, firstErr, result,
                   gts, response, faults>>

NextPaths == CheckRequest \/ NameSession \/ \E kind \in Slots : WriteArtifact(kind)

SpecPaths == InitPaths /\ [][NextPaths]_vars

\* ------------------------------------------------------ key scheme, alone
\* file.originalname of an upload.
UploadNames ==
    {<<"a",".","m","p","3">>, <<"b",".","w","a","v">>, <<"X",".","M","P","3">>,
     <<"c">>, <<"x",".","h","t","m","l">>}

\* file.mimetype of an upload.
MimeTypes == {"audio/mpeg", "audio/mp3", "audio/wav"}

\* An artifact of some kind is about to be written for an upload.
InitKeys ==
    /\ storageType \in {"filesystem", "s3"}
    /\ fsDirs = {}
    /\ files = <<>>
    /\ call \in [op : {"upload"}, kind : Kinds, originalname : UploadNames,
                 mimetype : MimeTypes, name : CandidateNames,
                 at : 1..MaxClock, generatedAt : 1..MaxClock]
    /\ NoRequests

\* multer's fileFilter: the upload is taken when its mimetype is audio/mpeg or
\* audio/mp3, or its original name ends in .mp3 in any case.
FileFilter ==
    /\ call.op = "upload"
    /\ call' = [call EXCEPT !.op =
                  IF \/ call.mimetype = "audio/mpeg"
                     \/ call.mimetype = "audio/mp3"
                     \/ ToLowerCase(Extname(call.originalname)) = DOT_MP3
                  THEN "accepted" ELSE "refused"]
    /\ UNCHANGED <<storageType, now, fsDirs, files, req, pc, sid, wr, firstErr, result,
                   gts, response, faults>>

\* The write path names the artifact.
WriteKey ==
    /\ call.op = "accepted"
    /\ call' = [op |-> "written", kind |-> call.kind,
                key |-> <<<<"c","1">>, GenerateSessionId(call.at),
                          KeyName(call.kind, GenerateSessionId(call.at), call.originalname,
                                  call.name, call.generatedAt)>>]
    /\ UNCHANGED <<storageType, now, fsDirs, files, req, pc, sid, wr, firstErr, result,
                   gts, response, faults>>

\* The listing classifies the name it finds in the session.
ClassifyKey ==
    /\ call.op = "written"
    /\ call' = [op |-> "listed", kind |-> call.kind, key |-> call.key,
                as |-> Classify(call.key[3])]
    /\ UNCHANGED <<storageType, now, fsDirs, files, req, pc, sid, wr, firstErr, result,
                   gts, response, faults>>

NextKeys == FileFilter \/ WriteKey \/ ClassifyKey

SpecKeys == InitKeys /\ [][NextKeys]_vars

\* ------------------------------------------------- generated filenames
\* Characters of candidate names: letters, a digit, and characters the
\* pattern replaces.
NameAlphabet == {"D", "o", "7", "_", "/", "!", " ", "."}

JOHN_DOE == <<"J","o","h","n","/","D","o","e","!">>

\* candidateProfile as profile extraction may leave its candidate_name:
\* missing, null, or a string (the empty one included).
ExtractedProfiles ==
    {[given |-> g, candidate_name |-> <<>>] : g \in {"missing", "null"}}
        \cup {[given |-> "string", candidate_name |-> n] :
                 n \in {JOHN_DOE} \cup UNION {[1..k -> NameAlphabet] : k \in 0..MaxNameLen}}

\* candidateProfile.candidate_name where it is truthy; a missing, null or
\* empty name is the empty sequence.
CandidateNameOf(profile) ==
    IF profile.given = "string" THEN profile.candidate_name ELSE <<>>

\* A profile is about to be rendered at second `at`.
InitNames ==
    /\ storageType \in {"filesystem", "s3"}
    /\ fsDirs = {}
    /\ files = <<>>
    /\ call \in [op : {"profile"}, profile : ExtractedProfiles, at : 1..MaxClock]
    /\ NoRequests

\* generateCandidatePDF names the html and the pdf.
GenerateFilenames ==
    /\ call.op = "profile"
    /\ call' = [op |-> "generated", profile |-> call.profile, at |-> call.at,
                html |-> GeneratedFilename(CandidateNameOf(call.profile), call.at, DOT_HTML),
                pdf |-> GeneratedFilename(CandidateNameOf(call.profile), call.at, DOT_PDF)]
    /\ UNCHANGED <<storageType, now, fsDirs, files, req, pc, sid, wr, firstErr, result,
                   gts, response, faults>>

NextNames == GenerateFilenames

SpecNames == InitNames /\ [][NextNames]_vars

\* -------------------------------------------------- one session's entries
\* The characters of filenames in the order of their UTF-8 bytes.
AsciiOrder == <<"-", ".">> \o DigitChars \o UpperChars \o <<"_">> \o LowerChars

CharCode(ch) == CHOOSE i \in 1..Len(AsciiOrder) : AsciiOrder[i] = ch

\* a < b in UTF-8 binary order.
RECURSIVE KeyLess(_, _)
KeyLess(a, b) ==
    IF b = <<>> THEN FALSE
    ELSE IF a = <<>> THEN TRUE
    ELSE IF Head(a) # Head(b) THEN CharCode(Head(a)) < CharCode(Head(b))
    ELSE KeyLess(Tail(a), Tail(b))

\* The names of S as the object store lists them.
RECURSIVE KeysInOrder(_)
KeysInOrder(S) ==
    IF S = {} THEN <<>>
    ELSE LET least == CHOOSE x \in S : \A y \in S \ {x} : KeyLess(x, y)
         IN  <<least>> \o KeysInOrder(S \ {least})

\* The orders in which a listing may meet the entries S of a session: any
\* from readdir, key order from the object store.
EntryOrders(S) == IF storageType = "filesystem" THEN ReaddirOrders(S) ELSE {KeysInOrder(S)}

\* The one session the store holds.
SESSION == GenerateSessionId(1)

\* The audio a session may hold: none, the upload under its .mp3 name, or an
\* upload whose original name ended in .wav.
AudioVariants ==
    {{}, {AudioFilename(SESSION, <<"a",".","m","p","3">>)},
         {AudioFilename(SESSION, <<"b",".","w","a","v">>)}}

\* What else a session may hold: nothing, files the listing knows nothing
\* of, the html and pdf of one generation or of two.
ExtraEntries ==
    LET html(at) == GeneratedFilename(<<"A","l">>, at, DOT_HTML)
        pdf(at)  == GeneratedFilename(<<"A","l">>, at, DOT_PDF)
        notes    == <<"n",".","m","d">>
        other    == <<"x",".","m","p","3">>
    IN  {{}, {notes}, {other}, {notes, other}, {html(1)}, {html(1), pdf(1)},
         {html(1), html(2)}, {pdf(1), pdf(2)}}

\* The files of the session: a transcript, a profile, a metadata document
\* with processedAt or with processed_at, the audio and the extras.
SessionFiles(meta, at, audio, extra) ==
    LET docs == StoredSession(<<"c","1">>, meta, at, "whole")
    IN  [p \in {<<<<"c","1">>, SESSION, f>> : f \in DOMAIN docs \cup audio \cup extra} |->
            IF p[3] \in DOMAIN docs THEN docs[p[3]]
            ELSE [data |-> Chars(<<"b">>), by |-> 0, as |-> Classify(p[3])]]

\* A store with one session, as a listing finds it.
InitSession ==
    /\ storageType \in {"filesystem", "s3"}
    /\ \E v \in {w \in SlotVariants : w.meta \in {"plain", "timed"}} :
       \E audio \in AudioVariants, extra \in ExtraEntries :
          /\ files = SessionFiles(v.meta, v.at, audio, extra)
          /\ fsDirs = (IF storageType = "s3" THEN {}
                       ELSE DirsOf(SessionFiles(v.meta, v.at, audio, extra)))
    /\ call = NoCall
    /\ NoRequests

\* The listing materializes the session from its entries in the order it
\* meets them.
GetSessionData ==
    /\ call = NoCall
    /\ \E entries \in EntryOrders(EntriesOf(files, <<"c","1">>, SESSION)) :
          call' = [op |-> "session",
                   record |-> SessionEntryIn(NoFaults, files, <<"c","1">>, SESSION, entries)]
    /\ UNCHANGED <<storageType, now, fsDirs, files, req, pc, sid, wr, firstErr, result,
                   gts, response, faults>>

NextSession == GetSessionData

SpecSession == InitSession /\ [][NextSession]_vars

\* ------------------------------------------------- the temporary upload
\* A request for processAudio arrives, with or without a file in its `audio`
\* field; no temporary file exists yet.
InitUpload ==
    /\ storageType \in {"filesystem", "s3"}
    /\ fsDirs = {}
    /\ files = <<>>
    /\ call \in [op : {"processAudio"}, pc : {"upload"}, candidateId : RequestedIds,
                 file : BOOLEAN, tmp : {FALSE}, status : {0}]
    /\ NoRequests

\* upload.single('audio'): multer's disk storage writes the file of the
\* request under uploads/ and sets req.file.
UploadSingle ==
    /\ call.op = "processAudio" /\ call.pc = "upload"
    /\ call' = [call EXCEPT !.pc = "check", !.tmp = call.file]
    /\ UNCHANGED <<storageType, now, fsDirs, files, req, pc, sid, wr, firstErr, result,
                   gts, response, faults>>

\* processAudio's checks: without a candidateId, and then without a file,
\* the handler returns its 400 at once.
CheckCandidateAndFile ==
    /\ call.op = "processAudio" /\ call.pc = "check"
    /\ call' = IF call.candidateId = <<>> \/ ~call.file
               THEN [call EXCEPT !.pc = "sent", !.status = 400]
               ELSE [call EXCEPT !.pc = "transcribe"]
    /\ UNCHANGED <<storageType, now, fsDirs, files, req, pc, sid, wr, firstErr, result,
                   gts, response, faults>>

\* await transcribe(req.file.path): the transcript, or a throw.
Transcribe ==
    /\ call.op = "processAudio" /\ call.pc = "transcribe"
    /\ \E next \in {"format", "catch"} : call' = [call EXCEPT !.pc = next]
    /\ UNCHANGED <<storageType, now, fsDirs, files, req, pc, sid, wr, firstErr, result,
                   gts, response, faults>>

\* await formatTranscriptToDialogue(rawTranscript)
FormatTranscriptToDialogue ==
    /\ call.op = "processAudio" /\ call.pc = "format"
    /\ \E next \in {"extract", "catch"} : call' = [call EXCEPT !.pc = next]
    /\ UNCHANGED <<storageType, now, fsDirs, files, req, pc, sid, wr, firstErr, result,
                   gts, response, faults>>

\* await extractProfile(rawTranscript)
ExtractProfile ==
    /\ call.op = "processAudio" /\ call.pc = "extract"
    /\ \E next \in {"save", "catch"} : call' = [call EXCEPT !.pc = next]
    /\ UNCHANGED <<storageType, now, fsDirs, files, req, pc, sid, wr, firstErr, result,
                   gts, response, faults>>

\* How await storageManager.saveCandidateData(...) may end for the handler:
\* on the filesystem the transcript write is rejected, which the handler
\* catches unless the process has gone on the unhandled rejection; on the
\* object store the save resolves or rejects.
SaveOutcomes ==
    IF storageType = "filesystem" THEN {"catch", "crashed"} ELSE {"generate", "catch"}

\* await storageManager.saveCandidateData(...): the audio is copied from
\* req.file.path, or read from it for the put; the temporary file stays.
SaveSession ==
    /\ call.op = "processAudio" /\ call.pc = "save"
    /\ \E next \in SaveOutcomes : call' = [call EXCEPT !.pc = next]
    /\ UNCHANGED <<storageType, now, fsDirs, files, req, pc, sid, wr, firstErr, result,
                   gts, response, faults>>

\* The html and the pdf are generated; a failure is caught on the spot. Then
\* the temporary file is removed if it exists and the success is sent.
GenerateAndRespond ==
    /\ call.op = "processAudio" /\ call.pc = "generate"
    /\ call' = [call EXCEPT !.pc = "sent", !.tmp = FALSE, !.status = 200]
    /\ UNCHANGED <<storageType, now, fsDirs, files, req, pc, sid, wr, firstErr, result,
                   gts, response, faults>>

\* catch (error): the temporary file is removed if req.file is set and the
\* file exists, and the 500 is sent.
CatchAndRespond ==
    /\ call.op = "processAudio" /\ call.pc = "catch"
    /\ call' = [call EXCEPT !.pc = "sent", !.tmp = IF call.file THEN FALSE ELSE @,
                            !.status = 500]
    /\ UNCHANGED <<storageType, now, fsDirs, files, req, pc, sid, wr, firstErr, result,
                   gts, response, faults>>

NextUpload ==
    \/ UploadSingle
    \/ CheckCandidateAndFile
    \/ Transcribe
    \/ FormatTranscriptToDialogue
    \/ ExtractProfile
    \/ SaveSession
    \/ GenerateAndRespond
    \/ CatchAndRespond

SpecUpload == InitUpload /\ [][NextUpload]_vars

\* ----------------------------------------------------------------- claims
\* C1: the listing's classification maps every filename the write path
\* produces back to the artifact kind it was written as.
C1_RoundTrip == call.op = "listed" => call.as = call.kind

\* C2: the sessions listCandidateSessions returns are in createdAt order,
\* newest first: of two returned sessions that both have a createdAt, the one
\* with the later createdAt comes first.
C2_SortedNewestFirst ==
    (call.op = "listCandidateSessions" /\ call.result.ok)
    => \A i, j \in 1..Len(call.result.list) :
          (/\ i < j
           /\ call.result.list[i].createdAt # NoTime
           /\ call.result.list[j].createdAt # NoTime)
          => call.result.list[i].createdAt >= call.result.list[j].createdAt

\* C3: listCandidates on a store without candidates, and listCandidateSessions
\* of a candidate without sessions, return the empty sequence and do not fail,
\* whether the root, directory or prefix is empty or does not exist.
C3_EmptyListsEmpty ==
    /\ (call.op = "listCandidates" /\ ListedCandidateIds(fsDirs, files) = {})
          => call.result = Ok(<<>>)
    /\ (call.op = "listCandidateSessions"
           /\ ListedSessionIds(fsDirs, files, call.candidateId) = {})
          => call.result = Ok(<<>>)

\* A listing has run on a filesystem whose root, or whose candidate directory,
\* does not exist.
C3_Witness ==
    /\ storageType = "filesystem"
    /\ \/ call.op = "listCandidates" /\ <<>> \notin fsDirs
       \/ (call.op = "listCandidateSessions" /\ <<>> \in fsDirs
              /\ <<call.candidateId>> \notin fsDirs)
    /\ call.result.ok

\* The store without the file at path p.
Without(fl, p) == [q \in DOMAIN fl \ {p} |-> fl[q]]

\* The stored metadata and profile documents that do not parse.
MalformedDocuments ==
    {p \in DOMAIN files :
        /\ p[3] \in {METADATA_JSON, PROFILE_JSON}
        /\ ~IsJsonObject(files[p].data)}

\* C4: a session with a malformed metadata.json or candidate_profile.json is
\* still returned, with empty metadata (and createdAt null) or empty profile,
\* and every other session and every candidate is listed exactly as it is
\* listed from the store without that document.
C4_MalformedDocumentIsolated ==
    \A p \in MalformedDocuments :
        /\ (call.op = "listCandidateSessions" /\ call.candidateId = p[1])
              => LET got == call.result
                     ref == ListSessions(fsDirs, Without(files, p), p[1], call.order)
                 IN  /\ got.ok /\ ref.ok
                     /\ Len(got.list) = Len(ref.list)
                     /\ \E i \in 1..Len(got.list) : got.list[i].sessionId = p[2]
                     /\ \A i \in 1..Len(got.list) :
                           IF got.list[i].sessionId = p[2]
                           THEN /\ ref.list[i].sessionId = p[2]
                                /\ p[3] = METADATA_JSON
                                      => /\ got.list[i].metadata = EmptyDoc
                                         /\ got.list[i].createdAt = NoTime
                                /\ p[3] = PROFILE_JSON
                                      => got.list[i].candidateProfile = EmptyDoc
                           ELSE got.list[i] = ref.list[i]
        /\ (call.op = "listCandidateSessions" /\ call.candidateId # p[1])
              => call.result
                    = ListSessions(fsDirs, Without(files, p), call.candidateId, call.order)
        /\ call.op = "listCandidates"
              => call.result
                    = ListCandidatesIn(fsDirs, Without(files, p), call.order, call.sorders)

\* The sessions of a candidate were listed while one of them held a malformed
\* metadata.json and a sibling had a createdAt.
C4_Witness ==
    /\ call.op = "listCandidateSessions"
    /\ \E p \in MalformedDocuments :
          /\ p[1] = call.candidateId
          /\ p[3] = METADATA_JSON
          /\ \E i \in 1..Len(call.result.list) :
                /\ call.result.list[i].sessionId # p[2]
                /\ call.result.list[i].createdAt # NoTime

\* The session request r wrote to is listed.
SessionListed(r) ==
    /\ req[r].candidateId \in ListedCandidateIds(fsDirs, files)
    /\ sid[r] \in ListedSessionIds(fsDirs, files, req[r].candidateId)

\* C5: two write requests of one candidate in the same clock second get the
\* same sessionId, and once both are answered no file of an artifact kind the
\* second request wrote is still the first request's.
C5_SecondReplacesFirst ==
    \A a, b \in Reqs :
        (/\ a < b
         /\ pc[a] = "done" /\ pc[b] = "done"
         /\ req[a].candidateId = req[b].candidateId
         /\ req[a].metadata.processedAt = req[b].metadata.processedAt)
        => /\ sid[a] = sid[b]
           /\ \A p, q \in DOMAIN files :
                 (/\ p[1] = req[b].candidateId /\ p[2] = sid[b]
                  /\ q[1] = p[1] /\ q[2] = p[2]
                  /\ files[q].by = b
                  /\ files[p].as = files[q].as)
                 => files[p].by = b

\* C6 as stated: in every reachable storage state every listed session has a
\* transcript locator and a metadata locator.
C6_EveryListedSessionComplete ==
    \A c \in ListedCandidateIds(fsDirs, files) :
        \A s \in ListedSessionIds(fsDirs, files, c) :
            /\ Locators(files, c, s)["transcript"] # <<>>
            /\ Locators(files, c, s)["metadata"] # <<>>

\* C6 as amended: every session whose saveCandidateData resolved is listed
\* with a transcript locator and a metadata locator.
C6_SavedSessionComplete ==
    \A r \in Reqs :
        result[r].state = "resolved"
        => /\ SessionListed(r)
           /\ Locators(files, req[r].candidateId, sid[r])["transcript"] # <<>>
           /\ Locators(files, req[r].candidateId, sid[r])["metadata"] # <<>>

\* A saveCandidateData has resolved and its session is listed.
C6_Witness == \E r \in Reqs : result[r].state = "resolved" /\ SessionListed(r)

\* C7: no session holds two files that classify as the same artifact kind.
C7_OneFilePerKind ==
    \A p, q \in DOMAIN files :
        (/\ p[1] = q[1] /\ p[2] = q[2]
         /\ Classify(p[3]) # "none"
         /\ Classify(p[3]) = Classify(q[3]))
        => p = q

\* C8: a saveCandidateData with a failed write never resolves, and one
\* rejected by a write was rejected by a write that failed; every artifact a
\* sibling write has stored is in the store, whatever failed since, and every
\* stored file is listed under its session with a locator of its kind.
C8_FailureKeepsSiblings ==
    /\ \A r \in Reqs :
          /\ (\E k \in Slots : wr[r][k] = "failed") => result[r].state # "resolved"
          /\ (result[r].state = "rejected" /\ result[r].err \in Slots)
                => wr[r][result[r].err] = "failed"
          /\ \A k \in Slots : wr[r][k] = "done" => ArtifactPath(r, k) \in DOMAIN files
    /\ \A p \in DOMAIN files :
          /\ p[1] \in ListedCandidateIds(fsDirs, files)
          /\ p[2] \in ListedSessionIds(fsDirs, files, p[1])
    /\ \A c \in ListedCandidateIds(fsDirs, files) :
          \A s \in ListedSessionIds(fsDirs, files, c) :
              LET found == Locators(files, c, s)
              IN  \A f \in EntriesOf(files, c, s) :
                      Classify(f) # "none" => found[Classify(f)] # <<>>

\* A saveCandidateData was rejected by a failed write while a sibling's file
\* is stored.
C8_Witness ==
    \E r \in Reqs : \E k, j \in Slots :
        /\ result[r] = Rejected(k)
        /\ wr[r][k] = "failed"
        /\ wr[r][j] = "done"
        /\ ArtifactPath(r, j) \in DOMAIN files

\* C9: once saveCandidateData has resolved or rejected, none of the writes it
\* dispatched is still in flight.
C9_SettlesAfterAllWrites ==
    \A r \in Reqs :
        result[r].state # "pending" => \A k \in Slots : wr[r][k] \notin {"pending", "open"}

Listed == call.op \in {"listCandidates", "listCandidateSessions"}

\* The directories and prefixes whose enumeration fails during the call and
\* which the call is about: all of them for listCandidates, the candidate's
\* own and those of its sessions for listCandidateSessions.
EnumerationFaults ==
    {p \in DOMAIN call.faults :
        /\ Len(p) <= 2
        /\ call.op = "listCandidateSessions" => (Len(p) >= 1 /\ p[1] = call.candidateId)}

\* C11 as stated: on a supported backend listCandidates and
\* listCandidateSessions return a sequence whatever storage fault occurs
\* during the listing; they never fail towards the caller.
C11_ListingNeverFails == Listed => call.result.ok

\* C11 as amended: on the object store the listings never fail towards the
\* caller; on the filesystem they return a sequence whenever every directory
\* whose enumeration fails fails as not existing (unreadable documents do not
\* count).
C11_ListingFailsOnlyOnFilesystemError ==
    Listed =>
        /\ storageType = "s3" => call.result.ok
        /\ (storageType = "filesystem"
               /\ \A p \in EnumerationFaults : call.faults[p] = "ENOENT")
              => call.result.ok

\* A listing has returned a sequence although the enumeration of a directory
\* or prefix it is about failed; on the filesystem, a sequence that is not
\* empty.
C11_Witness ==
    /\ Listed
    /\ call.result.ok
    /\ EnumerationFaults # {}
    /\ storageType = "filesystem" => call.result.list # <<>>

\* C12: on the object store a failure of the list call of listCandidates, or
\* of listCandidateSessions, gives the empty sequence; a failure of the list
\* call listCandidates makes for one candidate's sessions gives that candidate
\* no sessions; no error reaches the caller.
C12_S3ListFailureGivesEmpty ==
    (Listed /\ storageType = "s3") =>
        /\ call.result.ok
        /\ (call.op = "listCandidates" /\ <<>> \in DOMAIN call.faults)
              => call.result.list = <<>>
        /\ (call.op = "listCandidateSessions" /\ <<call.candidateId>> \in DOMAIN call.faults)
              => call.result.list = <<>>
        /\ (call.op = "listCandidates" /\ <<>> \notin DOMAIN call.faults)
              => \A i \in 1..Len(call.result.list) :
                    <<call.result.list[i].candidateId>> \in DOMAIN call.faults
                        => call.result.list[i].sessionCount = 0

\* The list call of a listing failed on an object store that holds what the
\* listing was asked for.
C12_Witness ==
    /\ storageType = "s3"
    /\ \/ /\ call.op = "listCandidates"
          /\ <<>> \in DOMAIN call.faults
          /\ ListedCandidateIds(fsDirs, files) # {}
       \/ /\ call.op = "listCandidateSessions"
          /\ <<call.candidateId>> \in DOMAIN call.faults
          /\ ListedSessionIds(fsDirs, files, call.candidateId) # {}
    /\ call.result = Ok(<<>>)

\* C13: on the filesystem, when the enumeration of the root, of a candidate
\* directory or of a session directory fails with an error other than the
\* directory not existing, the listing fails towards the caller with that
\* error instead of returning a sequence.
C13_FilesystemErrorPropagates ==
    (/\ Listed
     /\ storageType = "filesystem"
     /\ EnumerationFaults # {}
     /\ \A p \in EnumerationFaults : p \in fsDirs /\ call.faults[p] # "ENOENT")
    => /\ ~call.result.ok
       /\ call.result.code \in {call.faults[p] : p \in EnumerationFaults}

\* listCandidates has failed because the enumeration of a session directory
\* did, with an error other than ENOENT.
C13_Witness ==
    /\ call.op = "listCandidates"
    /\ storageType = "filesystem"
    /\ \E p \in EnumerationFaults : Len(p) = 2 /\ call.faults[p] = "EACCES"
    /\ call.result = Failed("EACCES")

\* C14: a storage manager exists, and a facade operation runs or returns,
\* only with a supported storage type: any other type is refused, with a
\* configuration error, before the instance is constructed.
C14_UnsupportedKindRefused == Constructed => storageType \in {"filesystem", "s3"}

\* C15: uploadToS3 on the filesystem fails with the unsupported-operation
\* error without sending a request or changing the store; on the object store
\* it sends exactly one put, with the key, the bytes and the content type it
\* was given.
C15_RawUploadOnlyOnObjectStore ==
    [][call'.op = "uploadToS3" =>
          /\ storageType = "filesystem"
                => /\ call'.result
                        = Failed("S3 upload is only available when storage type is s3")
                   /\ call'.sent = <<>>
                   /\ files' = files /\ fsDirs' = fsDirs
          /\ storageType = "s3"
                => /\ call'.sent = <<[Key |-> call'.key, Body |-> call'.content,
                                      ContentType |-> call'.contentType]>>
                   /\ call'.result = Ok(<<>>)
                         => /\ call'.key \in DOMAIN files'
                            /\ files'[call'.key].data = call'.content]_vars

\* uploadToS3 was called on the filesystem backend and failed.
C15_Witness ==
    /\ call.op = "uploadToS3"
    /\ storageType = "filesystem"
    /\ ~call.result.ok

\* C16 as stated: serveFile answers 403, without touching a file and without
\* streaming a byte, every request whose path after /files/ does not start
\* with candidate-data/.
C16_OutsidePrefixForbidden ==
    (call.op = "serveFile" /\ ~StartsWith(call.filePath, CANDIDATE_DATA \o <<"/">>))
    => call.result = Answer(403, {}, <<>>)

\* C16 as amended: such a request is refused without touching a file and
\* without streaming a byte, with 400 when the path is empty and with 403
\* otherwise.
C16_OutsidePrefixRefused ==
    (call.op = "serveFile" /\ ~StartsWith(call.filePath, CANDIDATE_DATA \o <<"/">>))
    => call.result = Answer(IF call.filePath = <<>> THEN 400 ELSE 403, {}, <<>>)

\* A request for a file that exists beside candidate-data was refused.
C16_Witness ==
    /\ call.op = "serveFile"
    /\ call.filePath = DOT_ENV
    /\ OnDisk(PathJoin(<<>>, call.filePath)).kind = "file"
    /\ call.result.status = 403

\* C17: every candidateId whose session is written is free of `..` segments
\* and of a leading slash, and every file or key written for it is
\* <root>/<candidateId>/<sessionId>/<name> below the configured root.
C17_WritesStayUnderCandidate ==
    call.op = "saving" =>
        /\ <<".",".">> \notin {Split(call.candidateId)[i] :
                                  i \in 1..Len(Split(call.candidateId))}
        /\ call.candidateId[1] # "/"
        /\ \A at \in call.written \cup {call.folder \o <<TRANSCRIPT_TXT>>} :
              /\ at[1] = CANDIDATE_DATA
              /\ SubSeq(at, 1, Len(at) - 1)
                    = <<CANDIDATE_DATA>> \o Split(call.candidateId) \o <<call.sessionId>>

\* C18: the session of a request whose saveCandidateData resolved, and whose
\* metadata document is stored as the request wrote it, is listed with
\* createdAt equal to the processedAt of that document.
C18_CreatedAtIsProcessedAt ==
    \A r \in Reqs :
        (/\ result[r].state = "resolved"
         /\ ArtifactPath(r, "metadata") \in DOMAIN files
         /\ files[ArtifactPath(r, "metadata")].data = ArtifactData(r, "metadata"))
        => SessionEntry(files, req[r].candidateId, sid[r]).createdAt
              = req[r].metadata.processedAt

\* The createdAt of the sessions of candidate c that have one.
DatesOf(c) ==
    {SessionEntry(files, c, s).createdAt : s \in ListedSessionIds(fsDirs, files, c)}
        \ {NoTime}

\* C19: every candidate listCandidates returns has as lastActivity the
\* greatest createdAt of its sessions, null only if none of them has one, and
\* its name is the profile name of a session with that createdAt.
C19_LastActivityIsGreatest ==
    (call.op = "listCandidates" /\ call.result.ok)
    => \A i \in 1..Len(call.result.list) :
          LET row == call.result.list[i]
              c   == row.candidateId
          IN  IF DatesOf(c) = {}
              THEN row.lastActivity = NoTime
              ELSE /\ row.lastActivity \in DatesOf(c)
                   /\ \A t \in DatesOf(c) : t <= row.lastActivity
                   /\ \E s \in ListedSessionIds(fsDirs, files, c) :
                         /\ SessionEntry(files, c, s).createdAt = row.lastActivity
                         /\ Field(SessionEntry(files, c, s).candidateProfile, "name")
                               = row.name

\* C20: of two candidates listCandidates returns that both have a
\* lastActivity, the one with the later lastActivity comes first, and every
\* listed candidate is returned exactly once.
C20_RosterSortedNewestFirst ==
    (call.op = "listCandidates" /\ call.result.ok)
    => /\ \A i, j \in 1..Len(call.result.list) :
             (/\ i < j
              /\ call.result.list[i].lastActivity # NoTime
              /\ call.result.list[j].lastActivity # NoTime)
             => call.result.list[i].lastActivity >= call.result.list[j].lastActivity
       /\ Len(call.result.list) = Cardinality(ListedCandidateIds(fsDirs, files))
       /\ {call.result.list[i].candidateId : i \in 1..Len(call.result.list)}
             = ListedCandidateIds(fsDirs, files)

\* ---------------------------------------------------------------- C21
\* The sessions of candidate c whose objects the listing in `call` could
\* read: none when the enumeration of c itself failed, else the stored
\* sessions whose own enumeration did not fail.
ReadableSessions(c) ==
    IF <<c>> \in DOMAIN call.faults THEN {}
    ELSE {s \in ListedSessionIds(fsDirs, files, c) : <<c, s>> \notin DOMAIN call.faults}

StemBefore(filename, tail) ==
    IF EndsWith(filename, tail)
    THEN SubSeq(filename, 1, Len(filename) - Len(tail)) ELSE <<>>

\* C22: the generated html and pdf filenames are <stem>_profile_<timestamp>
\* followed by .html and .pdf, with the same stem; the stem is as long as the
\* name and holds only characters of [A-Za-z0-9_], it is John_Doe_ for the
\* name John/Doe!, and it is `candidate` when the name is missing, null or
\* empty.
C22_FilenameForm ==
    call.op = "generated" =>
        LET tail == <<"_","p","r","o","f","i","l","e","_">> \o FormatTimestamp(call.at)
            stem == StemBefore(call.html, tail \o DOT_HTML)
            name == call.profile.candidate_name
        IN  /\ stem # <<>>
            /\ call.html = stem \o tail \o DOT_HTML
            /\ call.pdf = stem \o tail \o DOT_PDF
            /\ \A i \in 1..Len(stem) : stem[i] \in AlnumChars \cup {"_"}
            /\ (call.profile.given # "string" \/ name = <<>>) =>
                  stem = <<"c","a","n","d","i","d","a","t","e">>
            /\ (call.profile.given = "string" /\ name # <<>>) =>
                  /\ Len(stem) = Len(name)
                  /\ \A i \in 1..Len(name) : name[i] \in AlnumChars => stem[i] = name[i]
            /\ name = JOHN_DOE => stem = <<"J","o","h","n","_","D","o","e","_">>

\* The filenames of the profile of John/Doe! have been generated.
C22_Witness ==
    /\ call.op = "generated"
    /\ call.profile.candidate_name = JOHN_DOE
    /\ StartsWith(call.pdf, <<"J","o","h","n","_","D","o","e","_","_","p","r","o","f","i","l","e","_">>)

\* ---------------------------------------------------------------- C23
\* C23: a session holding transcript.txt, candidate_profile.json, a
\* metadata.json with processed_at = T and audio_<sessionId>.mp3, and besides
\* them only files of other names (n.md, x.mp3), is materialized, whatever
\* the listing order, with the locators and links of exactly the audio, the
\* transcript, the profile and the metadata, each locator the file of that
\* name, with null html and pdf, and with createdAt = T.
C23_FullSessionMaterialized ==
    LET c       == <<"c","1">>
        entries == EntriesOf(files, c, SESSION)
        audio   == AUDIO_PREFIX \o SESSION \o DOT_MP3
        four    == {TRANSCRIPT_TXT, PROFILE_JSON, METADATA_JSON, audio}
        meta    == files[<<c, SESSION, METADATA_JSON>>].data
    IN  (/\ call.op = "session"
         /\ four \subseteq entries
         /\ entries \ four \subseteq {<<"n",".","m","d">>, <<"x",".","m","p","3">>}
         /\ "processed_at" \in ParsedFields(meta))
        => /\ call.record.files =
                 [k \in Kinds |->
                     CASE k = "audio" -> audio
                       [] k = "transcript" -> TRANSCRIPT_TXT
                       [] k = "profile" -> PROFILE_JSON
                       [] k = "metadata" -> METADATA_JSON
                       [] OTHER -> <<>>]
           /\ \A k \in Kinds :
                 call.record.links[k] =
                    IF k \in {"html", "pdf"} THEN <<>>
                    ELSE LinkTo(c, SESSION, call.record.files[k])
           /\ call.record.createdAt = ParsedValue(meta, "processed_at")
           /\ call.record.createdAt # NoTime

\* A session with the four files, two unrecognized ones and processed_at = 2
\* has been materialized from a filesystem directory.
C23_Witness ==
    /\ call.op = "session"
    /\ storageType = "filesystem"
    /\ Cardinality(EntriesOf(files, <<"c","1">>, SESSION)) = 6
    /\ call.record.files["audio"] = AUDIO_PREFIX \o SESSION \o DOT_MP3
    /\ call.record.files["html"] = <<>>
    /\ call.record.createdAt = 2

\* ---------------------------------------------------------------- C24
\* C24: the materialized session does not depend on the listing order: every
\* order in which the backend may list the session's entries gives the record
\* the listing gave (same locator and same link for every kind), and no entry
\* is the locator of two kinds.
C24_OrderIndependent ==
    call.op = "session" =>
        /\ \A entries \in EntryOrders(EntriesOf(files, <<"c","1">>, SESSION)) :
              SessionEntryIn(NoFaults, files, <<"c","1">>, SESSION, entries) = call.record
        /\ \A f \in EntriesOf(files, <<"c","1">>, SESSION) :
              Cardinality({k \in Kinds : call.record.files[k] = f}) <= 1

\* ---------------------------------------------------------------- C25
\* C25: an html or pdf file written for a request exists only once that
\* request's saveCandidateData has resolved; a request whose save resolved is
\* answered with a success whose storage result holds the transcript, profile
\* and metadata locators, whether or not the generation or its upload failed,
\* and holds no pdf locator when no pdf was stored; no request whose save did
\* not resolve is answered with a success.
C25_GeneratedAfterSaveAndCaught ==
    \A r \in Reqs :
        /\ \A p \in DOMAIN files :
              (files[p].by = r /\ files[p].as \in {"html", "pdf"})
                 => result[r].state = "resolved"
        /\ pc[r] \in {"saved", "pdf"} => result[r].state = "resolved"
        /\ response[r] = "success" => result[r].state = "resolved"
        /\ (pc[r] = "done" /\ result[r].state = "resolved") =>
              /\ response[r] = "success"
              /\ {"transcript", "profile", "metadata"} \subseteq result[r].locators
              /\ ArtifactPath(r, "pdf") \notin DOMAIN files => "pdf" \notin result[r].locators

\* A request answered after its pdf failed: the save resolved, the html is
\* stored, no pdf is, and a fault was met.
C25_Witness ==
    \E r \in Reqs :
        /\ pc[r] = "done"
        /\ result[r].state = "resolved"
        /\ response[r] = "success"
        /\ faults > 0
        /\ ArtifactPath(r, "html") \in DOMAIN files
        /\ ArtifactPath(r, "pdf") \notin DOMAIN files

\* ---------------------------------------------------------------- C26
\* The path `at` relative to the candidate-data root or prefix, as a string.
BelowRoot(at) ==
    JoinSegments(IF at # <<>> /\ at[1] = CANDIDATE_DATA THEN Tail(at) ELSE <<<<".",".">>>> \o at)

\* C26: for the candidateId and sessionId of a session being saved, the
\* session folder of the filesystem relative to its root and the base key of
\* the object store relative to its prefix are the same string, namely
\* <candidateId>/<sessionId>, and every artifact written lies directly in the
\* folder or under the base key of the backend in use.
C26_SameLayoutOnBothBackends ==
    call.op = "saving" =>
        /\ BelowRoot(SessionFolderOn("filesystem", call.candidateId, call.sessionId))
              = call.candidateId \o <<"/">> \o call.sessionId
        /\ BelowRoot(SessionFolderOn("s3", call.candidateId, call.sessionId))
              = call.candidateId \o <<"/">> \o call.sessionId
        /\ \A at \in call.written :
              /\ SubSeq(at, 1, Len(at) - 1) = call.folder
              /\ at[Len(at)] \in {TRANSCRIPT_TXT, PROFILE_JSON, METADATA_JSON,
                                   AUDIO_PREFIX \o call.sessionId \o DOT_MP3}

\* ---------------------------------------------------------------- C27
\* C27: every path serveFile checks the existence of or streams the bytes of
\* lies in the candidate-data directory of the working directory, also for a
\* request path that starts with `candidate-data/` and holds `..` segments.
C27_ServedFromCandidateData ==
    call.op = "serveFile" =>
        \A at \in call.result.touched : at # <<>> /\ at[1] = CANDIDATE_DATA

\* ---------------------------------------------------------------- C28
\* C28: a request that reached saveCandidateData and has ended (answered, or
\* with the process gone) without any storage fault ended with a success
\* response, its transcript write did not fail, and the transcript,
\* the profile and the metadata of its session are stored.
C28_SuccessPathStoresSession ==
    \A r \in Reqs :
        (pc[r] \in {"done", "crashed"} /\ sid[r] # <<>> /\ faults = 0) =>
            /\ response[r] = "success"
            /\ wr[r]["transcript"] # "failed"
            /\ \A kind \in {"transcript", "profile", "metadata"} :
                  ArtifactPath(r, kind) \in DOMAIN files

C30_StoredMetadataNamesSession ==
    \A r \in Reqs :
        (/\ result[r].state = "resolved"
         /\ ArtifactPath(r, "metadata") \in DOMAIN files
         /\ files[ArtifactPath(r, "metadata")].by = r)
        => /\ IsJsonObject(files[ArtifactPath(r, "metadata")].data)
           /\ ParsedValue(files[ArtifactPath(r, "metadata")].data, "sessionId") = sid[r]

====
